---- MODULE Spec2Model ----
(***************************************************************************)
(* A model of the TASCAM BD-MP4K driver (custom_components/tascam_bdmp4k/  *)
(* tascam.py): the controller object, its coroutines (heartbeat, connect,  *)
(* sequenced poll, send_command, cleanup, listen loop, power sequencer)    *)
(* and the device behind the socket.                                       *)
(*                                                                         *)
(* The coroutines run on one cooperative asyncio loop: a task keeps the    *)
(* loop until it reaches a real suspension point (a sleep, a socket wait,  *)
(* a pending future, a contended lock).  Every action of the model is the  *)
(* event a parked task waits for, followed by that task's code up to its   *)
(* next suspension point (Run).  Each task has a call stack of frames      *)
(* [f, pc, arg, n, m]: the coroutine, the position in it, and its locals.  *)
(* Text (command bodies, inbound chunks, segments) is a sequence of        *)
(* one-character strings.  emitted is the log of what the last step sent,  *)
(* called or decided.                                                      *)
(***************************************************************************)
EXTENDS Integers, Sequences, FiniteSets, TLC

\* ------------------------------------------------------------------ bounds
MaxSock == 2
MaxOps == 1
MaxFlips == 2

\* ------------------------------------------------------- program constants
WakeAttempts == 7
FailThreshold == 2

\* ------------------------------------------------------------ text helpers
\* Bind(e, Op) is Op(e) with e worked out once, before Op uses it
Bind(e, Op(_)) == CHOOSE r \in { Op(x) : x \in {e} } : TRUE

RECURSIVE Concat(_)
Concat(ss) == IF ss = <<>> THEN <<>> ELSE Head(ss) \o Concat(Tail(ss))

IsPrefix(p, s) == Len(p) <= Len(s) /\ SubSeq(s, 1, Len(p)) = p

Contains(s, p) ==
  \E i \in 1..(Len(s) - Len(p) + 1) : SubSeq(s, i, i + Len(p) - 1) = p

Upper == <<"A","B","C","D","E","F","G","H","I","J","K","L","M",
           "N","O","P","Q","R","S","T","U","V","W","X","Y","Z">>
Lowers == <<"a","b","c","d","e","f","g","h","i","j","k","l","m",
            "n","o","p","q","r","s","t","u","v","w","x","y","z">>

LowerOf == [c \in { Upper[i] : i \in 1..26 } |-> Lowers[CHOOSE i \in 1..26 : Upper[i] = c]]

LowerChar(c) == IF c \in DOMAIN LowerOf THEN LowerOf[c] ELSE c

Lower(s) == [i \in 1..Len(s) |-> LowerChar(s[i])]

Digits == {"0","1","2","3","4","5","6","7","8","9"}
Space == {" ", "\r", "\n", "\t"}

RECURSIVE LStrip(_)
LStrip(s) == IF s # <<>> /\ Head(s) \in Space THEN LStrip(Tail(s)) ELSE s

RECURSIVE RStrip(_)
RStrip(s) ==
  IF s # <<>> /\ s[Len(s)] \in Space THEN RStrip(SubSeq(s, 1, Len(s) - 1)) ELSE s

Strip(s) == RStrip(LStrip(s))

\* str.replace(old, "") scanning left to right
RECURSIVE Remove(_, _)
Remove(s, old) ==
  IF s = <<>> THEN <<>>
  ELSE IF IsPrefix(old, s) THEN Remove(SubSeq(s, Len(old) + 1, Len(s)), old)
  ELSE <<Head(s)>> \o Remove(Tail(s), old)

\* str.split(d): the pieces between the occurrences of d, empty ones included
RECURSIVE SplitAcc(_, _, _)
SplitAcc(s, d, acc) ==
  IF s = <<>> THEN <<acc>>
  ELSE IF IsPrefix(d, s) THEN <<acc>> \o SplitAcc(SubSeq(s, Len(d) + 1, Len(s)), d, <<>>)
  ELSE SplitAcc(Tail(s), d, Append(acc, Head(s)))

Split(s, d) == SplitAcc(s, d, <<>>)

\* ------------------------------------------------------------ wire tokens
BANG7 == <<"!","7">>
ACK == <<"a","c","k">>
NACK == <<"n","a","c","k">>
ERROR == <<"e","r","r","o","r">>
ACKPLUS == <<"a","c","k","+">>
UNKN == <<"U","N","K","N">>
PWR00 == <<"P","W","R","0","0">>
PWR01 == <<"P","W","R","0","1">>
PLY == <<"P","L","Y">>
Q_SST == <<"?","S","S","T">>
Q_MUT == <<"?","M","U","T">>
Q_MST == <<"?","M","S","T">>
Q_SET == <<"?","S","E","T">>
Q_SRT == <<"?","S","R","T">>
Q_SGN == <<"?","S","G","N">>
Q_STC == <<"?","S","T","C">>
Q_STG == <<"?","S","T","G">>
Q_STT == <<"?","S","T","T">>
SSTON == <<"!","7","S","S","T","O","N">>
SSTOFF == <<"!","7","S","S","T","O","F","F">>

PollBase == <<Q_MUT, Q_MST>>
PollMedia == <<Q_SET, Q_SRT, Q_SGN, Q_STC, Q_STG, Q_STT>>

\* ------------------------------------------------------------- media data
\* TascamController.PROTOCOL_MAP: wire code -> TascamState member
PROTOCOL_MAP ==
  << <<<<"D","V","F","F">>, "FF">>, <<<<"D","V","F","R">>, "FR">>,
     <<<<"D","V","S","F">>, "SLOW_F">>, <<<<"D","V","S","R">>, "SLOW_R">>,
     <<<<"D","V","S","U">>, "SETUP">>, <<<<"D","V","H","M">>, "HOME">>,
     <<<<"D","V","M","C">>, "MEDIA_CENTER">>, <<<<"D","V","T","R">>, "ROOT_MENU">>,
     <<<<"D","V","P","L">>, "SPLASH">>, <<<<"P","L">>, "PLAY">>,
     <<<<"P","P">>, "PAUSE">>, <<<<"S","T">>, "STOP">> >>

MEDIA_ACTIVE_STATES == {"PLAY", "PAUSE", "FF", "FR", "SLOW_F", "SLOW_R"}

\* TascamDiscState member names, looked up by name (TascamDiscState[val])
DiscNames ==
  { <<"N","C">>, <<"C","I">>, <<"T","O">>, <<"T","C">>, <<"T","E">>, <<"U","F">> }

ZERO == <<"0">>

\* the "# Media Data" fields as __init__ sets them
InitMedia ==
  [ transport_state |-> "OFF", tray_open |-> FALSE, is_muted |-> FALSE,
    disc_status |-> <<"N","C">>,
    current_group |-> ZERO, total_groups |-> ZERO,
    current_track |-> ZERO, total_tracks |-> ZERO,
    elapsed_seconds |-> 0, remaining_seconds |-> 0, total_seconds |-> 0 ]

is_media_active(md) == md.transport_state \in MEDIA_ACTIVE_STATES

_clear_metadata(md) ==
  [ md EXCEPT !.current_group = ZERO, !.total_groups = ZERO,
              !.current_track = ZERO, !.total_tracks = ZERO,
              !.elapsed_seconds = 0, !.remaining_seconds = 0, !.total_seconds = 0,
              !.disc_status = <<"N","C">>, !.tray_open = FALSE ]

DigitVal(c) == CHOOSE d \in 0..9 : <<"0","1","2","3","4","5","6","7","8","9">>[d + 1] = c

AllDigits(s) == \A i \in 1..Len(s) : s[i] \in Digits

\* a decoder whose pattern must end where the string ends
TimeToSecondsStrict(tascam_time) ==
  LET n == Len(tascam_time)
  IN IF n >= 7 /\ AllDigits(SubSeq(tascam_time, n - 6, n))
     THEN LET d(i) == DigitVal(tascam_time[n - 7 + i])
          IN (d(1) * 100 + d(2) * 10 + d(3)) * 3600 + (d(4) * 10 + d(5)) * 60
             + d(6) * 10 + d(7)
     ELSE 0

\* a decoder that reads the seven digits as a number of seconds
TimeToSecondsDecimal(tascam_time) ==
  LET n == Len(tascam_time)
  IN IF n >= 7 /\ AllDigits(SubSeq(tascam_time, n - 6, n))
     THEN LET d(i) == DigitVal(tascam_time[n - 7 + i])
          IN d(1) * 1000000 + d(2) * 100000 + d(3) * 10000 + d(4) * 1000
             + d(5) * 100 + d(6) * 10 + d(7)
     ELSE 0

\* re.search(r'(\d{3})(\d{2})(\d{2})$', tascam_time): "$" also matches just
\* before one trailing newline
_time_to_seconds(tascam_time) ==
  LET t == IF tascam_time # <<>> /\ tascam_time[Len(tascam_time)] = "\n"
              /\ ~(Len(tascam_time) >= 7
                   /\ AllDigits(SubSeq(tascam_time, Len(tascam_time) - 6, Len(tascam_time))))
           THEN SubSeq(tascam_time, 1, Len(tascam_time) - 1)
           ELSE tascam_time
      n == Len(t)
  IN IF n >= 7 /\ AllDigits(SubSeq(t, n - 6, n))
     THEN LET d(i) == DigitVal(t[n - 7 + i])
          IN (d(1) * 100 + d(2) * 10 + d(3)) * 3600 + (d(4) * 10 + d(5)) * 60
             + d(6) * 10 + d(7)
     ELSE 0

\* "".join(filter(str.isdigit, seg))
RECURSIVE DigitsOf(_)
DigitsOf(s) ==
  IF s = <<>> THEN <<>>
  ELSE IF Head(s) \in Digits THEN <<Head(s)>> \o DigitsOf(Tail(s))
  ELSE DigitsOf(Tail(s))

\* raw_val.lstrip('0') or "0"
RECURSIVE LStripZero(_)
LStripZero(s) == IF s # <<>> /\ Head(s) = "0" THEN LStripZero(Tail(s)) ELSE s

\* a normalisation that does not look for UNKN
NumericValueOfDigits(seg) ==
  LET v == LStripZero(DigitsOf(seg)) IN IF v = <<>> THEN ZERO ELSE v

NumericValue(seg) ==
  IF Contains(seg, UNKN) THEN ZERO
  ELSE LET v == LStripZero(DigitsOf(seg)) IN IF v = <<>> THEN ZERO ELSE v

\* ----------------------------------------------------------- subscriber bus
NoMatch == <<"None">>

\* one observable thing a step did: kind, who, text, tags
Ev(k, s, v, f) == [k |-> k, s |-> s, v |-> v, f |-> f]

\* a filter that wants the segment to begin with the match string
MatchesStart(match, payload) ==
  match = NoMatch \/ IsPrefix(match, SubSeq(payload, 3, Len(payload)))

Matches(match, payload) == match = NoMatch \/ Contains(payload, match)

\* one callback(payload) per registered listener whose filter lets it through
RECURSIVE NotifyFrom(_, _, _)
NotifyFrom(subs, ids, payload) ==
  IF ids = {} THEN <<>>
  ELSE LET i == CHOOSE x \in ids : \A y \in ids : x <= y
       IN (IF Matches(subs[i], payload) THEN <<Ev("sub", i, payload, {})>> ELSE <<>>)
          \o NotifyFrom(subs, ids \ {i}, payload)

Notify(subs, payload) == NotifyFrom(subs, DOMAIN subs, payload)

\* ------------------------------------------------------- _handle_response
StartsAny(seg, ps) == \E p \in ps : IsPrefix(p, seg)

GroupPrefixes == { <<"G","N","M","X">>, <<"G","N","M">>, <<"G","N">> }
TotalGroupPrefixes == { <<"T","G","N","X">> }
TrackPrefixes == { <<"T","N","M">>, <<"T","N">> }
TotalTrackPrefixes == { <<"T","T","N">>, <<"T","T">> }
NumericPrefixes ==
  GroupPrefixes \cup TotalGroupPrefixes \cup TrackPrefixes \cup TotalTrackPrefixes

SkipSegment(seg) ==
  seg = <<>> \/ Lower(seg) \in {ACK, NACK, ERROR} \/ Len(seg) < 2

\* one pass of the "for seg in segments" body: acc carries the media fields,
\* the two burst-wide flags and the listener calls made so far
SegKind(seg) ==
  IF IsPrefix(<<"S","S","T">>, seg) THEN "SST"
  ELSE IF IsPrefix(<<"M","S","T">>, seg) THEN "MST"
  ELSE IF IsPrefix(<<"M","U","T">>, seg) THEN "MUT"
  ELSE IF StartsAny(seg, NumericPrefixes) THEN "NUM"
  ELSE IF IsPrefix(<<"S","E","T">>, seg) THEN "SET"
  ELSE IF IsPrefix(<<"S","R","T">>, seg) THEN "SRT"
  ELSE "OTHER"

\* what the branches of the loop body read off the segment
SegFacts(seg) ==
  [ kind |-> SegKind(seg),
    sstHit |-> { i \in 1..Len(PROTOCOL_MAP) : PROTOCOL_MAP[i][1] = SubSeq(seg, 4, Len(seg)) },
    mstVal |-> SubSeq(seg, 4, IF Len(seg) < 5 THEN Len(seg) ELSE 5),
    newMute |-> Contains(seg, <<"0","0">>),
    newVal |-> NumericValue(seg),
    newTime |-> IF Contains(seg, UNKN) THEN 0
                ELSE _time_to_seconds(SubSeq(seg, 4, Len(seg))),
    numField |-> IF StartsAny(seg, GroupPrefixes) THEN "current_group"
                 ELSE IF StartsAny(seg, TotalGroupPrefixes) THEN "total_groups"
                 ELSE IF StartsAny(seg, TrackPrefixes) THEN "current_track"
                 ELSE "total_tracks" ]

\* the media fields after the branch for a segment with facts d
SegMedia(md, d) ==
  CASE d.kind = "SST" ->
         IF d.sstHit # {}
         THEN [md EXCEPT !.transport_state = PROTOCOL_MAP[CHOOSE i \in d.sstHit : TRUE][2]]
         ELSE md
    [] d.kind = "MST" ->
         [md EXCEPT !.disc_status = IF d.mstVal \in DiscNames THEN d.mstVal ELSE <<"U","F">>,
                    !.tray_open = (d.mstVal = <<"T","O">>)]
    [] d.kind = "MUT" -> [md EXCEPT !.is_muted = d.newMute]
    [] d.kind = "NUM" -> [md EXCEPT ![d.numField] = d.newVal]
    [] d.kind = "SET" -> [md EXCEPT !.elapsed_seconds = d.newTime]
    [] d.kind = "SRT" -> [md EXCEPT !.remaining_seconds = d.newTime]
    [] OTHER -> md

\* segment_changed
SegChanged(md, d) ==
  CASE d.kind = "SST" -> d.sstHit # {} /\ SegMedia(md, d).transport_state # md.transport_state
    [] d.kind = "MST" ->
         (d.mstVal \in DiscNames /\ md.disc_status # d.mstVal)
         \/ md.tray_open # (d.mstVal = <<"T","O">>)
    [] d.kind = "MUT" -> md.is_muted # d.newMute
    [] d.kind = "NUM" -> md[d.numField] # d.newVal
    [] OTHER -> FALSE

\* segment_time_changed
SegTimeChanged(md, d) ==
  CASE d.kind = "SET" -> md.elapsed_seconds # d.newTime
    [] d.kind = "SRT" -> md.remaining_seconds # d.newTime
    [] OTHER -> FALSE

\* a loop that reports time ticks to the listeners too
SegNotifyTicks(md, d) ==
  d.kind = "OTHER" \/ SegChanged(md, d) \/ SegTimeChanged(md, d)

\* whether the listeners are called for the segment
SegNotify(md, d) ==
  (d.kind = "OTHER" \/ SegChanged(md, d)) /\ ~SegTimeChanged(md, d)

\* one pass of the "for seg in segments" body: acc carries the media fields,
\* the two burst-wide flags and the listener calls made so far
ApplyFacts(acc, subs, seg, d) ==
  [ media |-> SegMedia(acc.media, d),
    state_changed |-> acc.state_changed \/ SegChanged(acc.media, d),
    time_changed |-> acc.time_changed \/ SegTimeChanged(acc.media, d),
    ev |-> acc.ev \o (IF SegNotify(acc.media, d) THEN Notify(subs, BANG7 \o seg) ELSE <<>>) ]

ApplySegment(acc, subs, seg) ==
  IF SkipSegment(seg) THEN acc
  ELSE Bind(SegFacts(seg), LAMBDA d : ApplyFacts(acc, subs, seg, d))

RECURSIVE ApplySegments(_, _, _)
ApplySegments(acc, subs, segs) ==
  IF segs = <<>> THEN acc
  ELSE Bind(ApplySegment(acc, subs, Head(segs)),
            LAMBDA a : Bind(Tail(segs), LAMBDA rest : ApplySegments(a, subs, rest)))

\* a total that is recomputed as soon as one of the two times is positive
WithTotalOneSided(a) ==
  IF a.time_changed /\ (a.media.elapsed_seconds > 0 \/ a.media.remaining_seconds > 0)
  THEN [a.media EXCEPT !.total_seconds =
          a.media.elapsed_seconds + a.media.remaining_seconds]
  ELSE a.media

\* "# Calculate total time once per burst"
WithTotal(a) ==
  IF a.time_changed /\ a.media.elapsed_seconds > 0 /\ a.media.remaining_seconds > 0
  THEN [a.media EXCEPT !.total_seconds =
          a.media.elapsed_seconds + a.media.remaining_seconds]
  ELSE a.media

\* the lifecycle guard: not playing (or Off) with a position or track left
LifecycleGuard(m1) ==
  (~is_media_active(m1) \/ m1.transport_state = "OFF")
    /\ (m1.elapsed_seconds # 0 \/ m1.current_track # ZERO)

\* the end of _handle_response, after the segment loop left a and m1
AfterSegments(a, m1, hasCallback) ==
  [ media |-> IF LifecycleGuard(m1) THEN _clear_metadata(m1) ELSE m1,
    ev |-> a.ev \o (IF (a.state_changed \/ LifecycleGuard(m1) \/ a.time_changed)
                        /\ hasCallback
                     THEN <<Ev("cb", 0, <<>>, {})>> ELSE <<>>) ]

WithTotalThen(a, hasCallback) ==
  Bind(WithTotal(a), LAMBDA m1 : AfterSegments(a, m1, hasCallback))

\* _handle_response(raw_data): the media fields afterwards and what was
\* called, in order (listener calls, then the data-changed callback)
_handle_response(md, subs, hasCallback, raw_data) ==
  Bind(Split(raw_data, BANG7), LAMBDA segments :
    Bind(ApplySegments(
           [media |-> md, state_changed |-> FALSE, time_changed |-> FALSE, ev |-> <<>>],
           subs, segments),
         LAMBDA a : WithTotalThen(a, hasCallback)))

\* ---------------------------------------------------------------- the state
None == 0
HB == -2
\* the coroutines of the callers of the public methods: the first makes the
\* calls of a specification, the second one only a call that overlaps them
Caller == -1
Second == -3
Users == {Caller, Second}
Socks == 1..MaxSock
\* the tasks of every specification, and with the second caller
Tasks == {HB, Caller} \cup Socks
Coroutines == Tasks \cup {Second}

VARIABLES
  writer, reader,            \* the socket the stream handles belong to, or None
  status,                    \* _status: the flags set by hand
  media,                     \* the "# Media Data" fields
  cmd_result,                \* the task whose future is in the slot, or None
  fut,                       \* each task's latest command future
  connect_lock, cleanup_lock,
  heartbeat_task,            \* "None", "alive" (created, not finished), "done"
  hbCancel,                  \* cancel() on the live heartbeat: "no", "requested",
                             \* "delivered"
  subscribers,               \* _subscribers: listener -> match
  on_data_received_callback, \* whether the callback slot is filled
  mac_address,               \* the hardware address: "none", "valid" (twelve hex
                             \* digits once : and - are removed) or "malformed"
  guards,                    \* _reset_shutdown_guard tasks still sleeping
  stack,                     \* each task's call stack, parked at an await
  devMode, sock,             \* the device and the sockets
  opsLeft, flipsLeft,
  offRun,                    \* effective cleanups since the driver was last not idle
  disconnected,              \* disconnect() was called and connect() not since
  observed,                  \* whether the steps are logged
  emitted                    \* what the last step sent, called or decided

vars == <<writer, reader, status, media, cmd_result, fut, connect_lock,
          cleanup_lock, heartbeat_task, hbCancel, subscribers,
          on_data_received_callback, mac_address, guards, stack, devMode, sock,
          opsLeft, flipsLeft, offRun, disconnected, observed, emitted>>

F(f, pc, arg, n, m) == [f |-> f, pc |-> pc, arg |-> arg, n |-> n, m |-> m]
Fr(f) == F(f, "start", <<>>, 0, 0)

FreeLock == [held |-> FALSE, q |-> <<>>]

InitWith(mac, modes, obs, cb) ==
  /\ writer = None /\ reader = None
  /\ status = {}
  /\ media = InitMedia
  /\ cmd_result = None
  /\ fut = [t \in Coroutines |-> "done"]
  /\ connect_lock = FreeLock /\ cleanup_lock = FreeLock
  /\ heartbeat_task = "alive" /\ hbCancel = "no"
  /\ subscribers = <<>>
  /\ on_data_received_callback = cb
  /\ mac_address \in mac
  /\ guards = 0
  /\ stack = [t \in Coroutines |-> IF t = HB THEN <<Fr("hb")>> ELSE <<>>]
  /\ devMode \in modes
  /\ sock = [s \in Socks |-> "free"]
  /\ opsLeft = MaxOps /\ flipsLeft = MaxFlips
  /\ offRun = 0
  /\ disconnected = FALSE
  /\ observed = obs
  /\ emitted = <<>>

\* ------------------------------------------------------- derived properties
\* status property: SOCKET_OPEN is computed from the writer handle
StatusOf(st, w) == IF w # None THEN st \cup {"SOCKET_OPEN"} ELSE st \ {"SOCKET_OPEN"}

is_connected_in(st, w) ==
  "SOCKET_OPEN" \in StatusOf(st, w) /\ "SHUTTING_DOWN" \notin StatusOf(st, w)

is_connected == is_connected_in(status, writer)

\* heartbeat: "if (SHUTTING_DOWN | WAKING_UP) & self.status"
HeartbeatGuarded(st) == {"SHUTTING_DOWN", "WAKING_UP"} \cap st # {}

\* heartbeat: "if fail_count >= 2"
ShutdownDetected(fail_count) == fail_count >= FailThreshold

\* heartbeat: cleanup after a failed connect only if not Off and not waking
LostNeedsCleanup(md, st) == md.transport_state # "OFF" /\ "WAKING_UP" \notin st

\* a send_command without the is_connected test and the shutdown guard
SendRejectedNoGuard(cmd_body, st, w) == w = None

\* send_command: "# 1. Physical check" and "# 2. SHUTDOWN GUARD"
SendRejected(cmd_body, st, w) ==
  \/ w = None \/ ~is_connected_in(st, w)
  \/ ("SHUTTING_DOWN" \in StatusOf(st, w) /\ ~Contains(cmd_body, PWR01))

\* send_command: the frame written to the socket (without the trailing CR)
FullCmd(cmd_body) ==
  IF IsPrefix(BANG7, Strip(cmd_body)) THEN Strip(cmd_body) ELSE BANG7 \o Strip(cmd_body)

\* a send_command without the power-off hook
IsPowerOffNever(cmd_body) == FALSE

\* send_command: "if "PWR00" in cmd_body and success"
IsPowerOff(cmd_body) == Contains(Strip(cmd_body), PWR00)

\* a _cleanup without the early return
CleanupNoopNever(w, md) == FALSE

\* _cleanup: "if self.writer is None and self.transport_state == OFF: return"
CleanupNoop(w, md) == w = None /\ md.transport_state = "OFF"

\* a connect() that creates a heartbeat task whatever the state of the last
NeedsHeartbeatAlways(task) == TRUE

\* connect: "if self._heartbeat_task is None or self._heartbeat_task.done()"
NeedsHeartbeat(task) == task \in {"None", "done"}

\* _poll_sequenced: the commands after ?SST
PollCmds(active) == IF active THEN PollBase \o PollMedia ELSE PollBase

\* _listen: the handshake on the raw chunk; "keep" leaves the slot pending
\* a handshake that looks for the negative tokens first
HandshakeLowNegativeFirst(low_raw) ==
  IF Contains(low_raw, NACK) \/ Contains(low_raw, ERROR) THEN "exc"
  ELSE IF Contains(low_raw, ACK) THEN "ok"
  ELSE "keep"

\* _listen: "# 1. THE HANDSHAKE", on the lower-cased chunk
HandshakeLow(low_raw) ==
  IF Contains(low_raw, ACK) /\ ~Contains(low_raw, NACK) THEN "ok"
  ELSE IF Contains(low_raw, NACK) \/ Contains(low_raw, ERROR) THEN "exc"
  ELSE "keep"

Handshake(raw_string) == Bind(Lower(raw_string), LAMBDA low_raw : HandshakeLow(low_raw))

\* _listen: clean_payload
CleanPayload(raw_string) == Remove(Strip(raw_string), ACKPLUS)

\* _listen: "while self.writer and self.reader"
LoopAlive(w, r) == w # None /\ r # None


\* ------------------------------------------------- the running coroutine
\* A step of the loop runs one task from the await that parked it to its
\* next await.  While it runs, the controller is the record st: the
\* variables above, plus cur (the running task, None once it parks or ends)
\* and ret (the value the last inner coroutine returned).
Now ==
  [ writer |-> writer, reader |-> reader, status |-> status, media |-> media,
    cmd_result |-> cmd_result, fut |-> fut, connect_lock |-> connect_lock,
    cleanup_lock |-> cleanup_lock, heartbeat_task |-> heartbeat_task,
    hbCancel |-> hbCancel, guards |-> guards, stack |-> stack, sock |-> sock,
    offRun |-> offRun, disconnected |-> disconnected, emitted |-> <<>>,
    cur |-> None, ret |-> FALSE ]

TopOf(st, t) == st.stack[t][Len(st.stack[t])]
BelowOf(st, t) == SubSeq(st.stack[t], 1, Len(st.stack[t]) - 1)
Flags(st) == StatusOf(st.status, st.writer)
Idle(st) == st.writer = None /\ st.media.transport_state = "OFF"
MetaDefault(md) == md = _clear_metadata(md)
Snapshot(st) ==
  Flags(st) \cup (IF st.media.transport_state \in {"OFF", "SPLASH"}
                  THEN {st.media.transport_state} ELSE {})
            \cup (IF MetaDefault(st.media) THEN {"META_DEFAULT"} ELSE {})

Log(st, evs) == [st EXCEPT !.emitted = @ \o evs]
\* "if self.on_data_received_callback: self.on_data_received_callback()":
\* the call, tagged with what the callee can see
CbAt(st) ==
  IF on_data_received_callback THEN <<Ev("cb", 0, <<>>, Snapshot(st))>> ELSE <<>>
\* the top frame of t moves to pc with locals n and m
SetTop(st, t, pc, n, m) ==
  [st EXCEPT !.stack[t] = SubSeq(@, 1, Len(@) - 1)
                           \o <<[@[Len(@)] EXCEPT !.pc = pc, !.n = n, !.m = m]>>]
\* t goes on at pc / waits at pc
Jump(st, t, pc) ==
  [st EXCEPT !.stack[t] = SubSeq(@, 1, Len(@) - 1) \o <<[@[Len(@)] EXCEPT !.pc = pc]>>,
             !.cur = t]
Park(st, t, pc) ==
  [st EXCEPT !.stack[t] = SubSeq(@, 1, Len(@) - 1) \o <<[@[Len(@)] EXCEPT !.pc = pc]>>,
             !.cur = None]
\* t awaits the coroutine fr and will go on at retpc
Call(st, t, retpc, fr) ==
  [st EXCEPT !.stack[t] = SubSeq(@, 1, Len(@) - 1)
                           \o <<[@[Len(@)] EXCEPT !.pc = retpc], fr>>,
             !.cur = t]
\* a coroutine returns v to the frame below; a caller's coroutine returns to
\* the caller
Return(st, t, v) ==
  Bind(st, LAMBDA x :
    [x EXCEPT !.stack[t] = BelowOf(x, t),
              !.ret = v,
              !.cur = IF Len(x.stack[t]) > 1 THEN t ELSE None,
              !.emitted = IF Len(x.stack[t]) = 1 /\ t \in Users
                          THEN Append(@, Ev("ret", t, <<>>,
                                            {TopOf(x, t).f} \cup
                                            (IF v THEN {"TRUE"} ELSE {"FALSE"})))
                          ELSE @])

\* asyncio.Lock: acquire is immediate only when free and nobody is queued
LockFree(l) == ~l.held /\ l.q = <<>>
Acquired(l) == [l EXCEPT !.held = TRUE]
Queued(l, t) == [l EXCEPT !.q = Append(@, t)]
Granted(l) == [held |-> TRUE, q |-> Tail(l.q)]
Released(l) == [l EXCEPT !.held = FALSE]
Dequeued(l, t) == [l EXCEPT !.q = SelectSeq(@, LAMBDA x : x # t)]

\* the sockets a handle, a listen loop or a cleanup still refers to
Referenced(st, s) ==
  \/ st.writer = s \/ st.reader = s \/ st.stack[s] # <<>>
  \/ \E t \in Coroutines : \E i \in 1..Len(st.stack[t]) :
       st.stack[t][i].f \in {"listen", "cleanup"} /\ st.stack[t][i].n = s
FreeSocks(st) == { s \in Socks : ~Referenced(st, s) }

\* ------------------------------------------------------------- _heartbeat
\* first step of the task: HEARTBEAT_RUN set, fail_count = 0 (frame field n)
HbStart(st) ==
  Jump(SetTop([st EXCEPT !.status = @ \cup {"HEARTBEAT_RUN"}], HB, "top", 0, 0), HB, "top")

\* top of "while True"
HbTop(st) ==
  IF HeartbeatGuarded(Flags(st)) THEN Park(st, HB, "sleep")
  ELSE IF ~is_connected_in(st.status, st.writer)
       THEN Call(st, HB, "after_connect", F("connect", "start", <<>>, 0, 0))
       ELSE Call(st, HB, "after_poll", Fr("poll"))

\* "if not await self.connect(timeout=1.0)"
HbAfterConnect(st) ==
  IF st.ret THEN Park(st, HB, "sleep")
  ELSE IF LostNeedsCleanup(st.media, Flags(st))
       THEN Call(st, HB, "after_lost_cleanup", Fr("cleanup"))
       ELSE Park(st, HB, "sleep")

HbAfterLostCleanup(st) == Park(st, HB, "sleep")

\* "if not await self._poll_sequenced()"
HbAfterPoll(st) ==
  LET fail_count == TopOf(st, HB).n + 1
  IN IF st.ret THEN Park(SetTop(st, HB, "sleep", 0, 0), HB, "sleep")
     ELSE IF ShutdownDetected(fail_count)
          THEN LET st1 == [st EXCEPT !.status = @ \cup {"SHUTTING_DOWN"}]
               IN Call(Log(SetTop(st1, HB, "after_poll", fail_count, st.writer),
                           <<Ev("pollfail", HB, <<>>, {}),
                             Ev("detect", HB, <<>>, Flags(st1))>>),
                       HB, "after_shutdown_cleanup", Fr("cleanup"))
          ELSE Park(Log(SetTop(st, HB, "sleep", fail_count, 0),
                        <<Ev("pollfail", HB, <<>>, {})>>), HB, "sleep")

\* after the cleanup of a detected shutdown: guard timer, fail_count = 0
HbAfterShutdownCleanup(st) ==
  LET seen == TopOf(st, HB).m
      st1 == Log(st, <<Ev("shutdown", HB, <<>>,
                          Snapshot(st) \cup
                          (IF seen # None /\ st.writer = seen THEN {"SAME_SOCKET"} ELSE {}))>>)
  IN Park(SetTop([st1 EXCEPT !.guards = @ + 1], HB, "sleep", 0, 0), HB, "sleep")

\* CancelledError raised where the heartbeat is parked
RECURSIVE Unwind(_, _)
Unwind(st, i) ==
  \* i: the frame the exception is passing through, from the top down
  LET fr == st.stack[HB][i]
      cut == [st EXCEPT !.stack[HB] = SubSeq(@, 1, i)]
  IN IF fr.f = "hb"
       THEN \* "finally": HEARTBEAT_RUN cleared, unless the task never began
            [st EXCEPT !.stack[HB] = <<>>, !.heartbeat_task = "done", !.cur = None,
                       !.status = IF fr.pc = "start" THEN @ ELSE @ \ {"HEARTBEAT_RUN"}]
     ELSE IF fr.f = "poll"
       THEN \* _poll_sequenced: "except: return False"
            Return(cut, HB, FALSE)
     ELSE IF fr.f = "cleanup" /\ fr.pc = "closing"
       THEN \* _cleanup: "except: pass" around wait_closed()
            Jump(cut, HB, "finish")
     ELSE IF fr.f = "cleanup" /\ fr.pc = "lockwait"
       THEN Unwind([st EXCEPT !.cleanup_lock = Dequeued(@, HB)], i - 1)
     ELSE IF fr.f = "cleanup"
       THEN Unwind([st EXCEPT !.cleanup_lock = Released(@)], i - 1)
     ELSE IF fr.f = "connect" /\ fr.pc = "lockwait"
       THEN Unwind([st EXCEPT !.connect_lock = Dequeued(@, HB)], i - 1)
     ELSE IF fr.f = "connect"
       THEN \* "async with" releases; a pending open_connection is dropped
            Unwind([st EXCEPT !.connect_lock = Released(@)], i - 1)
     ELSE \* send_command: neither "except" catches it; wait_for drops the future
          Unwind([st EXCEPT !.fut[HB] = "done"], i - 1)

HbCancel(st) ==
  Unwind([st EXCEPT !.hbCancel = "delivered", !.cur = HB], Len(st.stack[HB]))

\* ---------------------------------------------------------------- connect
\* what a connect call returned
ConnRet(st, t, v) ==
  Return(Log(st, <<Ev("connret", t, <<>>, IF v THEN {"TRUE"} ELSE {"FALSE"})>>), t, v)

\* a connect() that opens a socket whether or not the driver is connected
ConnectLockedAlwaysOpens(st, t) ==
  Park(Log(st, <<Ev("open", t, <<>>, Flags(st))>>), t, "open")

ConnectLocked(st, t) ==
  LET spawn == NeedsHeartbeat(st.heartbeat_task)
      st1 == IF spawn
             THEN Log([st EXCEPT !.heartbeat_task = "alive", !.hbCancel = "no",
                                 !.stack[HB] = <<Fr("hb")>>],
                      <<Ev("spawn", t, <<>>, {})>>)
             ELSE st
  IN IF is_connected_in(st1.status, st1.writer)
     THEN ConnRet([st1 EXCEPT !.connect_lock = Released(@)], t, TRUE)
     ELSE Park(Log(st1, <<Ev("open", t, <<>>, Flags(st1))>>), t, "open")

ConnectEnter(st, t) ==
  LET st1 == Log([st EXCEPT !.disconnected = IF t = HB THEN @ ELSE FALSE],
                 <<Ev("conncall", t, <<>>, {})>>)
  IN IF LockFree(st.connect_lock)
     THEN ConnectLocked([st1 EXCEPT !.connect_lock = Acquired(@)], t)
     ELSE Park([st1 EXCEPT !.connect_lock = Queued(@, t)], t, "lockwait")

\* open_connection returned socket s within the timeout
\* a connect() without the synthesized notification
ConnectOpenedSilent(st, t, s) ==
  Call([st EXCEPT !.writer = s, !.reader = s, !.sock[s] = "open",
                  !.stack[s] = <<F("listen", "start", <<>>, s, 0)>>],
       t, "after_poll", Fr("poll"))

ConnectOpened(st, t, s) ==
  Call(Log([st EXCEPT !.writer = s, !.reader = s, !.sock[s] = "open",
                      !.stack[s] = <<F("listen", "start", <<>>, s, 0)>>],
           Notify(subscribers, SSTON)),
       t, "after_poll", Fr("poll"))

\* open_connection failed or timed out: "except Exception"
ConnectFailed(st, t) ==
  ConnRet([st EXCEPT !.writer = None, !.reader = None,
                     !.connect_lock = Released(@)], t, FALSE)

ConnectAfterPoll(st, t) == ConnRet([st EXCEPT !.connect_lock = Released(@)], t, TRUE)

\* --------------------------------------------------------- _poll_sequenced
\* what a _poll_sequenced call returned
PollRet(st, t, v) ==
  Return(Log(st, <<Ev("pollret", t, <<>>, IF v THEN {"TRUE"} ELSE {"FALSE"})>>), t, v)

PollStart(st, t) ==
  Call(Log(st, <<Ev("pollcall", t, <<>>, {})>>), t, "after_sst",
       F("send", "start", Q_SST, 0, 0))

\* frame field n: index of the command being sent; m: 1 when the list was
\* extended with the media queries
PollLoop(st, t) ==
  LET fr == TopOf(st, t)
      cmds == PollCmds(fr.m = 1)
  IN IF fr.n > Len(cmds) THEN PollRet(st, t, TRUE)
     ELSE Call(st, t, "after_cmd", F("send", "start", cmds[fr.n], 0, 0))

\* a poll that goes on whatever ?SST returned
PollAfterSstGoesOn(st, t) ==
  PollLoop(SetTop(st, t, "loop", 1, IF is_media_active(st.media) THEN 1 ELSE 0), t)

PollAfterSst(st, t) ==
  IF ~st.ret THEN PollRet(st, t, FALSE)
  ELSE PollLoop(SetTop(st, t, "loop", 1, IF is_media_active(st.media) THEN 1 ELSE 0), t)

PollAfterCmd(st, t) == Park(st, t, "sleep")

PollWake(st, t) ==
  PollLoop(SetTop(st, t, "loop", TopOf(st, t).n + 1, TopOf(st, t).m), t)

\* ----------------------------------------------------------- send_command
\* frame field n: the socket the frame was written to
SlotPending(st) == st.cmd_result # None /\ st.fut[st.cmd_result] = "pending"

\* what a send_command call returned
SendRet(st, t, v) ==
  Bind(st, LAMBDA x :
    Return(Log(x, <<Ev("sendret", t, TopOf(x, t).arg,
                       Snapshot(x) \cup (IF v THEN {"TRUE"} ELSE {"FALSE"}))>>), t, v))

SendStart(st, t) ==
  LET cmd_body == TopOf(st, t).arg
      called == Log(st, <<Ev("send", t, cmd_body, Flags(st))>>)
  IN IF SendRejected(cmd_body, st.status, st.writer)
     THEN SendRet(called, t, FALSE)
     ELSE Park(Log(SetTop([called EXCEPT !.cmd_result = t, !.fut[t] = "pending"],
                          t, "wait", st.writer, 0),
                   << Ev("slot", t, cmd_body,
                         Flags(st) \cup (IF SlotPending(st) THEN {"PREV_PENDING"} ELSE {})),
                      Ev("tx", t, FullCmd(cmd_body), Flags(st)) >>),
               t, "wait")

\* wait_for returned the future's outcome
SendResolved(st, t) ==
  LET cmd_body == TopOf(st, t).arg
      success == st.fut[t] = "ok"
      st1 == [st EXCEPT !.fut[t] = "done"]
  IN IF success /\ IsPowerOff(cmd_body)
     THEN Bind([st1 EXCEPT !.status = @ \cup {"SHUTTING_DOWN"},
                           !.media.transport_state = "OFF"],
               LAMBDA x : Park(Log(x, CbAt(x)), t, "pwrsleep"))
     ELSE SendRet(st1, t, success)

\* a timeout handler that also drops the socket handle
SendTimeoutDropsHandle(st, t) ==
  SendRet([st EXCEPT !.fut[t] = "done", !.writer = None, !.reader = None], t, FALSE)

\* wait_for timed out: "except asyncio.TimeoutError"
SendTimeout(st, t) == SendRet([st EXCEPT !.fut[t] = "done"], t, FALSE)

\* after "await asyncio.sleep(0.5)"
SendPwrWake(st, t) == Call(st, t, "after_cleanup", Fr("cleanup"))

SendAfterCleanup(st, t) == SendRet([st EXCEPT !.guards = @ + 1], t, TRUE)

\* ---------------------------------------------------------------- _cleanup
\* frame field n: 1 while queued for the lock, then the writer being closed;
\* m: 1 when the lock was taken with the driver idle
CleanupFinish(st, t) ==
  LET st1 == [st EXCEPT !.media = _clear_metadata([st.media EXCEPT !.transport_state = "OFF"]),
                        !.offRun = IF @ < 2 THEN @ + 1 ELSE @,
                        !.cleanup_lock = Released(@)]
  IN Return(Log(st1, Notify(subscribers, SSTOFF) \o CbAt(st1) \o
                     <<Ev("cleanup_done", t, <<>>,
                          Snapshot(st1) \cup
                          (IF TopOf(st, t).m = 1 THEN {"FROM_IDLE"} ELSE {}))>>),
            t, FALSE)

CleanupLocked(st, t) ==
  LET idle == IF Idle(st) THEN 1 ELSE 0
      waited == IF TopOf(st, t).n = 1 THEN {"WAITED"} ELSE {}
      st0 == Log([st EXCEPT !.offRun = IF Idle(st) THEN @ ELSE 0],
                 <<Ev("cleanup", t, <<>>, Snapshot(st) \cup waited)>>)
      w == st.writer
  IN IF CleanupNoop(st.writer, st.media)
     THEN Return(Log([st0 EXCEPT !.cleanup_lock = Released(@)],
                     <<Ev("cleanup_noop", t, <<>>, Snapshot(st0) \cup waited)>>),
                 t, FALSE)
     ELSE IF w # None
          THEN Park(SetTop([st0 EXCEPT !.writer = None, !.reader = None,
                                       !.sock[w] = "closed"],
                           t, "closing", w, idle), t, "closing")
          ELSE CleanupFinish(SetTop(st0, t, "finish", None, idle), t)

CleanupEnter(st, t) ==
  IF LockFree(st.cleanup_lock)
  THEN CleanupLocked([st EXCEPT !.cleanup_lock = Acquired(@)], t)
  ELSE Park(SetTop([st EXCEPT !.cleanup_lock = Queued(@, t)], t, "lockwait", 1, 0),
            t, "lockwait")

\* ----------------------------------------------------------------- _listen
\* frame field n: the socket whose reader the loop is reading
ReaderBusy(st, l) ==
  \E o \in Socks : o # l /\ st.stack[o] # <<>> /\ TopOf(st, o).f = "listen"
                   /\ TopOf(st, o).pc = "read" /\ TopOf(st, o).n = st.reader

\* "while self.writer and self.reader: data = await self.reader.read(4096)";
\* a second read() on a reader already being read raises, and "finally"
\* runs the cleanup
ListenLoop(st, l) ==
  IF LoopAlive(st.writer, st.reader) /\ ~ReaderBusy(st, l)
  THEN Park(SetTop(st, l, "read", st.reader, 0), l, "read")
  ELSE Call(st, l, "end", Fr("cleanup"))

\* "# 1. THE HANDSHAKE": the slot's future is settled
Settle(st, outcome) ==
  IF SlotPending(st) /\ outcome # "keep"
  THEN [st EXCEPT !.fut[st.cmd_result] = outcome]
  ELSE st

\* "# 2. THE PAYLOAD": r is what _handle_response did
Parsed(st, r) == Log([st EXCEPT !.media = r.media], r.ev)

Payload(st, clean_payload) ==
  IF Contains(clean_payload, BANG7)
  THEN Bind(_handle_response(st.media, subscribers, on_data_received_callback,
                             clean_payload),
            LAMBDA r : Parsed(st, r))
  ELSE st

ListenData(st, l, raw_string) ==
  Bind(CleanPayload(raw_string), LAMBDA clean_payload :
    Bind(Handshake(raw_string), LAMBDA outcome :
      Bind(Payload(Settle(Log(st, <<Ev("rx", l, raw_string,
                                      IF SlotPending(st) THEN {"PENDING"} ELSE {})>>),
                          outcome), clean_payload),
           LAMBDA st2 : ListenLoop(st2, l))))

\* read() returned b"": "break", then "finally"
ListenEOF(st, l) == Call(st, l, "end", Fr("cleanup"))

ListenEnd(st, l) == Return(st, l, FALSE)

\* --------------------------------------------------- power_on / power_off
WOL == <<"W","O","L">>

\* a power_on that does not test the hardware address
NoHardwareAddressIgnored(mac) == FALSE

\* power_on: "if not self.mac_address"
NoHardwareAddress(mac) == mac = "none"

\* "# 6. FAIL-SAFE REVERT"
PowerOnRevert(st, u) ==
  Bind([st EXCEPT !.status = @ \ {"WAKING_UP"}, !.media.transport_state = "OFF"],
       LAMBDA x : Return(Log(x, CbAt(x)), u, FALSE))

\* a power_on that sets its lock without lifting the cooldown
WakeLockKeepsCooldown(st) == st \cup {"WAKING_UP"}

\* "# 1. SET THE LOCK AND STATE IMMEDIATELY": the flags
WakeLock(st) == (st \cup {"WAKING_UP"}) \ {"SHUTTING_DOWN"}

\* an exception leaves the caller's coroutine: the call ends without a value
Raised(st, u) ==
  [st EXCEPT !.stack[u] = <<>>, !.cur = None,
             !.emitted = Append(@, Ev("ret", u, <<>>, {TopOf(st, u).f, "RAISED"}))]

\* frame field n: wake attempts used up; m: 1 when the broadcast raises
\* (no route, no permission), which "except: pass" swallows;
\* bytes.fromhex(mac_clean), before the "try", raises on a malformed address
PowerOnStart(st, u) ==
  LET st0 == [st EXCEPT !.status = WakeLock(@), !.media.transport_state = "SPLASH"]
      st1 == Log(st0, CbAt(st0))
  IN IF is_connected_in(st.status, st.writer)
     THEN Call(st, u, "ret_send", F("send", "start", PWR01, 0, 0))
     ELSE IF NoHardwareAddress(mac_address)
          THEN Return([st1 EXCEPT !.status = @ \ {"WAKING_UP"},
                                  !.media.transport_state = "OFF"], u, FALSE)
          ELSE IF mac_address = "malformed"
               THEN Raised(st1, u)
          ELSE IF TopOf(st, u).m = 1
               THEN PowerOnRevert(st1, u)
               ELSE Park(Log(st1, <<Ev("wol", u, WOL, {}), Ev("wol", u, WOL, {})>>),
                         u, "sleep")

PowerOnRetSend(st, u) == Return(st, u, st.ret)

\* after "await asyncio.sleep(2)"
PowerOnWake(st, u) == Call(st, u, "after_connect", F("connect", "start", <<>>, 0, 0))

PowerOnAfterConnect(st, u) ==
  LET used == TopOf(st, u).n + 1
  IN IF st.ret THEN Call(st, u, "after_pwr", F("send", "start", PWR01, 0, 0))
     ELSE IF used < WakeAttempts THEN Park(SetTop(st, u, "sleep", used, 0), u, "sleep")
     ELSE PowerOnRevert(st, u)

\* a wake loop that returns without lifting its lock
PowerOnAfterPwrKeepsLock(st, u) == Return(st, u, st.ret)

\* "# 5. CLEAR LOCK AND REFRESH UI"
PowerOnAfterPwr(st, u) ==
  Bind([st EXCEPT !.status = @ \ {"WAKING_UP"}],
       LAMBDA x : Return(Log(x, CbAt(x)), u, x.ret))

PowerOffStart(st, u) ==
  IF is_connected_in(st.status, st.writer)
  THEN Call(st, u, "end", F("send", "start", PWR00, 0, 0))
  ELSE Return(st, u, FALSE)

PowerOffEnd(st, u) == Return(st, u, FALSE)

\* -------------------------------------------------------------- disconnect
DisconnectStart(st, u) ==
  Call([st EXCEPT !.hbCancel = IF st.heartbeat_task = "alive" THEN "requested" ELSE @,
                  !.disconnected = TRUE],
       u, "end", Fr("cleanup"))

DisconnectEnd(st, u) == Return(st, u, FALSE)

\* ------------------------------------------------------- running to an await
\* the next piece of straight-line code of the running task
Exec(st) ==
  LET t == st.cur
      fr == TopOf(st, t)
      at(f, pc) == fr.f = f /\ fr.pc = pc
  IN CASE at("hb", "top") -> HbTop(st)
       [] at("hb", "after_connect") -> HbAfterConnect(st)
       [] at("hb", "after_lost_cleanup") -> HbAfterLostCleanup(st)
       [] at("hb", "after_poll") -> HbAfterPoll(st)
       [] at("hb", "after_shutdown_cleanup") -> HbAfterShutdownCleanup(st)
       [] at("connect", "start") -> ConnectEnter(st, t)
       [] at("connect", "locked") -> ConnectLocked(st, t)
       [] at("connect", "after_poll") -> ConnectAfterPoll(st, t)
       [] at("poll", "start") -> PollStart(st, t)
       [] at("poll", "after_sst") -> PollAfterSst(st, t)
       [] at("poll", "after_cmd") -> PollAfterCmd(st, t)
       [] at("send", "start") -> SendStart(st, t)
       [] at("send", "after_cleanup") -> SendAfterCleanup(st, t)
       [] at("cleanup", "start") -> CleanupEnter(st, t)
       [] at("cleanup", "locked") -> CleanupLocked(st, t)
       [] at("cleanup", "finish") -> CleanupFinish(st, t)
       [] at("listen", "end") -> ListenEnd(st, t)
       [] at("power_on", "start") -> PowerOnStart(st, t)
       [] at("power_on", "ret_send") -> PowerOnRetSend(st, t)
       [] at("power_on", "after_connect") -> PowerOnAfterConnect(st, t)
       [] at("power_on", "after_pwr") -> PowerOnAfterPwr(st, t)
       [] at("power_off", "start") -> PowerOffStart(st, t)
       [] at("power_off", "end") -> PowerOffEnd(st, t)
       [] at("disconnect", "start") -> DisconnectStart(st, t)
       [] at("disconnect", "end") -> DisconnectEnd(st, t)

RECURSIVE Run(_)
Run(st) == Bind(st, LAMBDA x : IF x.cur = None THEN x ELSE Run(Exec(x)))

\* the step's outcome becomes the next state; a socket nothing refers to any
\* more is forgotten
Commit(r) ==
  /\ writer' = r.writer /\ reader' = r.reader
  /\ status' = r.status
  /\ media' = r.media
  /\ cmd_result' = r.cmd_result
  /\ fut' = r.fut
  /\ connect_lock' = r.connect_lock /\ cleanup_lock' = r.cleanup_lock
  /\ heartbeat_task' = r.heartbeat_task /\ hbCancel' = r.hbCancel
  /\ guards' = r.guards
  /\ stack' = r.stack
  /\ sock' = [s \in Socks |-> IF Referenced(r, s) THEN r.sock[s] ELSE "free"]
  /\ offRun' = IF Idle(r) /\ observed THEN r.offRun ELSE 0
  /\ disconnected' = r.disconnected
  /\ emitted' = IF observed THEN r.emitted ELSE <<>>
  /\ UNCHANGED <<subscribers, on_data_received_callback, mac_address, observed>>

Resume(t, pc) == Run(Jump(Now, t, pc))

ParkedAt(t, f, pc) ==
  /\ stack[t] # <<>>
  /\ stack[t][Len(stack[t])].f = f /\ stack[t][Len(stack[t])].pc = pc
  /\ (t = HB => hbCancel # "requested")

\* ------------------------------------------------------------- the device
\* what the unit answers to a command it has received
IsQuery(cmd_body) == cmd_body # <<>> /\ Head(cmd_body) = "?"
Answers(cmd_body) ==
  IF cmd_body = Q_SST THEN { ACKPLUS \o BANG7 \o <<"S","S","T","S","T">> }
  ELSE IF cmd_body = Q_MST THEN { ACKPLUS \o BANG7 \o <<"M","S","T","C","I">> }
  ELSE IF IsQuery(cmd_body) THEN { ACK }
  ELSE { ACK, NACK }

\* a unit that is playing a disc reports PL; its reads may also carry an
\* upper-case acknowledgment, a refusal, an error line, an acknowledgment
\* and an error line together, or a state report with no token at all
SSTPL == BANG7 \o <<"S","S","T","P","L">>
Replies(cmd_body) ==
  (IF cmd_body = Q_SST THEN { ACKPLUS \o SSTPL } ELSE Answers(cmd_body))
    \cup { <<"A","C","K">>, NACK, ERROR, ACK \o <<"\r">> \o ERROR, SSTPL }

\* the chunks that can arrive on socket s now
Chunks(s) ==
  IF SlotPending(Now) /\ TopOf(Now, cmd_result).n = s
  THEN IF devMode = "playing" THEN Replies(TopOf(Now, cmd_result).arg)
       ELSE Answers(TopOf(Now, cmd_result).arg)
  ELSE {}

\* a listen loop is, or is about to be, reading socket s
Listened(s) ==
  \E l \in Socks : /\ stack[l] # <<>>
                   /\ TopOf(Now, l).f = "listen"
                   /\ \/ TopOf(Now, l).pc = "read" /\ TopOf(Now, l).n = s
                      \/ TopOf(Now, l).pc = "start" /\ reader = s /\ writer # None

\* a responsive unit answers the command in the slot before the wait runs out
AnswerDue(t) ==
  /\ devMode # "off" /\ cmd_result = t
  /\ sock[TopOf(Now, t).n] = "open" /\ Listened(TopOf(Now, t).n)

DevModes == {"off", "good"}

\* ------------------------------------------------------------- the steps
Step(r) == \E x \in {r} : Commit(x) /\ UNCHANGED <<devMode, opsLeft, flipsLeft>>

HeartbeatBegins == ParkedAt(HB, "hb", "start") /\ Step(Run(HbStart(Now)))

HeartbeatWakes == ParkedAt(HB, "hb", "sleep") /\ Step(Resume(HB, "top"))

HeartbeatCancelled ==
  /\ hbCancel = "requested" /\ stack[HB] # <<>>
  /\ Step(Run(HbCancel(Now)))

\* _reset_shutdown_guard: the sleep is over
GuardExpires ==
  /\ guards > 0
  /\ guards' = guards - 1
  /\ status' = status \ {"SHUTTING_DOWN"}
  /\ emitted' = <<>>
  /\ UNCHANGED <<writer, reader, media, cmd_result, fut, connect_lock, cleanup_lock,
                 heartbeat_task, hbCancel, subscribers, on_data_received_callback,
                 mac_address, observed, stack, devMode, sock, opsLeft, flipsLeft, offRun,
                 disconnected>>

ConnectLockGranted(t) ==
  /\ ParkedAt(t, "connect", "lockwait")
  /\ ~connect_lock.held /\ Head(connect_lock.q) = t
  /\ Step(Run(Jump([Now EXCEPT !.connect_lock = Granted(@)], t, "locked")))

ConnectionOpens(t) ==
  /\ ParkedAt(t, "connect", "open")
  /\ devMode # "off" /\ FreeSocks(Now) # {}
  /\ Step(Run(ConnectOpened(Now, t, CHOOSE s \in FreeSocks(Now) :
                                      \A o \in FreeSocks(Now) : s <= o)))

ConnectionFails(t) ==
  /\ ParkedAt(t, "connect", "open")
  /\ devMode = "off" \/ FreeSocks(Now) = {}
  /\ Step(Run(ConnectFailed(Now, t)))

PollSleepEnds(t) == ParkedAt(t, "poll", "sleep") /\ Step(Run(PollWake(Now, t)))

CommandAnswered(t) ==
  /\ ParkedAt(t, "send", "wait") /\ fut[t] \in {"ok", "exc"}
  /\ Step(Run(SendResolved(Now, t)))

CommandTimesOut(t) ==
  /\ ParkedAt(t, "send", "wait") /\ fut[t] = "pending"
  /\ ~AnswerDue(t)
  /\ Step(Run(SendTimeout(Now, t)))

PowerOffSleepEnds(t) ==
  ParkedAt(t, "send", "pwrsleep") /\ Step(Run(SendPwrWake(Now, t)))

CleanupLockGranted(t) ==
  /\ ParkedAt(t, "cleanup", "lockwait")
  /\ ~cleanup_lock.held /\ Head(cleanup_lock.q) = t
  /\ Step(Run(Jump([Now EXCEPT !.cleanup_lock = Granted(@)], t, "locked")))

\* wait_closed() returns
SocketClosed(t) == ParkedAt(t, "cleanup", "closing") /\ Step(Resume(t, "finish"))

ListenerBegins(l) == ParkedAt(l, "listen", "start") /\ Step(Run(ListenLoop(Now, l)))

DataArrives(l) ==
  /\ ParkedAt(l, "listen", "read")
  /\ sock[TopOf(Now, l).n] = "open" /\ devMode # "off"
  /\ \E raw_string \in Chunks(TopOf(Now, l).n) :
       Step(Run(ListenData(Now, l, raw_string)))

EndOfStream(l) ==
  /\ ParkedAt(l, "listen", "read")
  /\ sock[TopOf(Now, l).n] # "open"
  /\ Step(Run(ListenEOF(Now, l)))

WakeSleepEnds(u) == ParkedAt(u, "power_on", "sleep") /\ Step(Run(PowerOnWake(Now, u)))

\* a caller (the integration's entities and services) awaits a public method
UserCalls(u, fr) ==
  /\ stack[u] = <<>> /\ opsLeft > 0
  /\ opsLeft' = opsLeft - 1
  /\ \E x \in {Run([Now EXCEPT !.stack[u] = <<fr>>, !.cur = u])} : Commit(x)
  /\ UNCHANGED <<devMode, flipsLeft>>

Quiet ==
  UNCHANGED <<writer, reader, status, media, cmd_result, fut, connect_lock,
              cleanup_lock, heartbeat_task, hbCancel, guards, stack, offRun,
              disconnected>>

\* the permanent listener for every message and a temporary one with a
\* match string
SubIds == {1, 2}
\* the automation's temporary listener: a match string from the service call
SST == <<"S","S","T">>
MatchOf(c) == IF c = 1 THEN NoMatch ELSE IF c = 2 THEN <<"O","N">> ELSE SST

register_subscriber(c, match) ==
  /\ subscribers' = [i \in DOMAIN subscribers \cup {c} |->
                       IF i = c THEN match ELSE subscribers[i]]
  /\ subscribers' # subscribers
  /\ emitted' = <<>>
  /\ Quiet
  /\ UNCHANGED <<on_data_received_callback, mac_address, observed, devMode, sock, opsLeft, flipsLeft>>

remove_subscriber(c) ==
  /\ c \in DOMAIN subscribers
  /\ subscribers' = [i \in DOMAIN subscribers \ {c} |-> subscribers[i]]
  /\ emitted' = <<>>
  /\ Quiet
  /\ UNCHANGED <<on_data_received_callback, mac_address, observed, devMode, sock, opsLeft, flipsLeft>>

\* the integration assigns on_data_received_callback
SetCallback ==
  /\ ~on_data_received_callback
  /\ on_data_received_callback' = TRUE
  /\ emitted' = <<>>
  /\ Quiet
  /\ UNCHANGED <<subscribers, mac_address, observed, devMode, sock, opsLeft, flipsLeft>>

\* the unit is switched on or off
DeviceFlip(m) ==
  /\ flipsLeft > 0 /\ m # devMode
  /\ devMode' = m /\ flipsLeft' = flipsLeft - 1
  /\ emitted' = <<>>
  /\ Quiet
  /\ UNCHANGED <<subscribers, on_data_received_callback, mac_address, observed, sock, opsLeft>>

\* a unit that has gone off drops a connection
PeerClose(s) ==
  /\ sock[s] = "open" /\ devMode = "off"
  /\ sock' = [sock EXCEPT ![s] = "peer_closed"]
  /\ emitted' = <<>>
  /\ Quiet
  /\ UNCHANGED <<subscribers, on_data_received_callback, mac_address, observed, devMode,
                 opsLeft, flipsLeft>>

\* the event that task t is parked on happens and t runs to its next await
\* the events of the heartbeat, the listen tasks and what they call
BaseStep(t) ==
  \/ t = HB /\ (HeartbeatBegins \/ HeartbeatWakes)
  \/ ConnectionOpens(t) \/ ConnectionFails(t)
  \/ PollSleepEnds(t) \/ CommandAnswered(t) \/ CommandTimesOut(t)
  \/ CleanupLockGranted(t) \/ SocketClosed(t)
  \/ t \in Socks /\ (ListenerBegins(t) \/ DataArrives(t) \/ EndOfStream(t))

CoreStep(t) == BaseStep(t) \/ ConnectLockGranted(t) \/ PowerOffSleepEnds(t)

TaskStep(t) == CoreStep(t) \/ (t \in Users /\ WakeSleepEnds(t))

\* the loop runs whichever parked task is ready, and timers fire
Running == GuardExpires \/ \E t \in Tasks : TaskStep(t)

Loop == Running \/ HeartbeatCancelled

UserCmds == {PLY, PWR01}
UserOps ==
  {Fr("power_on"), F("power_on", "start", <<>>, 0, 1),
   Fr("power_off"), Fr("connect"), Fr("disconnect")}
    \cup { F("send", "start", c, 0, 0) : c \in UserCmds }

Next ==
  \/ Loop
  \/ \E u \in {Caller}, fr \in UserOps : UserCalls(u, fr)
  \/ \E m \in DevModes : DeviceFlip(m)
  \/ \E s \in Socks : PeerClose(s)

\* the integration fills the callback slot right after construction
Init == InitWith({"valid"}, DevModes, TRUE, TRUE)

Spec == Init /\ [][Next]_vars

\* the driver with its listeners: the integration registers entity listeners
\* and the data-changed callback, and unloads with disconnect()
BusNext ==
  \/ GuardExpires
  \/ \E t \in Tasks : BaseStep(t)
  \/ HeartbeatCancelled
  \/ \E u \in {Caller} : UserCalls(u, Fr("disconnect"))
  \/ \E c \in SubIds : register_subscriber(c, MatchOf(c))
  \/ \E c \in SubIds : remove_subscriber(c)
  \/ SetCallback
  \/ \E m \in DevModes : DeviceFlip(m)
  \/ \E s \in Socks : PeerClose(s)

BusInit == InitWith({"valid"}, DevModes, TRUE, FALSE)

BusSpec == BusInit /\ [][BusNext]_vars

\* the driver while nobody unloads it: the power entities only, and a unit
\* that is on at first.  The loop does not stop while something is ready:
\* a sleep ends, a lock is handed over, a close completes, a wait_for times
\* out, a unit that is on answers.
LiveNext ==
  \/ Running
  \/ \E u \in {Caller}, fr \in {Fr("power_on"), Fr("power_off")} : UserCalls(u, fr)
  \/ \E m \in DevModes : DeviceFlip(m)
  \/ \E s \in Socks : PeerClose(s)

LiveInit == InitWith({"valid", "malformed"}, {"good"}, FALSE, FALSE)

LiveSpec ==
  /\ LiveInit /\ [][LiveNext]_vars
  /\ WF_vars(GuardExpires)
  /\ \A t \in Tasks : WF_vars(TaskStep(t))

\* a driver constructed without a usable hardware address: the wake loop is
\* never entered
NoMacNext ==
  \/ GuardExpires
  \/ \E t \in Tasks : CoreStep(t)
  \/ \E u \in {Caller}, fr \in {Fr("power_on"), Fr("power_off"), Fr("connect")} :
       UserCalls(u, fr)
  \/ \E m \in DevModes : DeviceFlip(m)
  \/ \E s \in Socks : PeerClose(s)

NoMacInit == InitWith({"none", "malformed"}, DevModes, TRUE, TRUE)

NoMacSpec == NoMacInit /\ [][NoMacNext]_vars

TopIs(stk, t, f, pc) ==
  stk[t] # <<>> /\ stk[t][Len(stk[t])].f = f /\ stk[t][Len(stk[t])].pc = pc

\* a power_off() and, in the half second it sleeps after the unit has
\* acknowledged, a connect() from another coroutine (two calls of the host
\* are two tasks on the loop)
OverlappingCall(fr) ==
  /\ TopIs(stack, Caller, "send", "pwrsleep") /\ stack[Second] = <<>>
  /\ \E x \in {Run([Now EXCEPT !.stack[Second] = <<fr>>, !.cur = Second])} : Commit(x)
  /\ UNCHANGED <<devMode, opsLeft, flipsLeft>>

OverlapNext ==
  \/ GuardExpires
  \/ \E t \in Coroutines : CoreStep(t)
  \/ UserCalls(Caller, Fr("power_off"))
  \/ OverlappingCall(Fr("connect"))
  \/ DeviceFlip("off")

OverlapInit == InitWith({"valid"}, {"good"}, TRUE, TRUE)

OverlapSpec == OverlapInit /\ [][OverlapNext]_vars

\* the integration unloads the driver with disconnect() and the same object
\* is connected again: connect() follows a disconnect() that has returned,
\* whether or not the loop has run the cancelled heartbeat in between
ConnectAfterDisconnect ==
  /\ disconnected /\ stack[Caller] = <<>>
  /\ \E x \in {Run([Now EXCEPT !.stack[Caller] = <<Fr("connect")>>, !.cur = Caller])} :
       Commit(x)
  /\ UNCHANGED <<devMode, opsLeft, flipsLeft>>

ReloadNext ==
  \/ GuardExpires
  \/ \E t \in Tasks : BaseStep(t) \/ ConnectLockGranted(t)
  \/ HeartbeatCancelled
  \/ UserCalls(Caller, Fr("disconnect"))
  \/ ConnectAfterDisconnect
  \/ DeviceFlip("off")

ReloadSpec == Init /\ [][ReloadNext]_vars

\* the driver left to itself (heartbeat and listen tasks, no caller) with a
\* unit that is playing a disc
ChatModes == {"off", "playing"}

ChatNext ==
  \/ GuardExpires
  \/ \E t \in Tasks : BaseStep(t)
  \/ \E m \in ChatModes : DeviceFlip(m)
  \/ \E s \in Socks : PeerClose(s)

ChatInit == InitWith({"valid"}, {"playing"}, TRUE, TRUE)

ChatSpec == ChatInit /\ [][ChatNext]_vars

\* _handle_response on its own: the segments a unit reports (transport,
\* disc, mute, group and track numbers, times, one unmonitored report; with
\* unknown codes, UNKN, a line end left inside a burst) and the bursts made
\* of them
Segments ==
  { <<"S","S","T","P","L">>,
    <<"S","S","T","S","T">>,
    <<"S","S","T","P","L","\r">>,
    <<"M","S","T","C","I">>,
    <<"M","S","T","T","O">>,
    <<"M","S","T","X","X">>,
    <<"M","U","T","0","0">>,
    <<"M","U","T","0","1">>,
    <<"M","U","T","0","1","0","0">>,
    <<"T","N","0","0","4","2">>,
    <<"T","N","0","0","0","0">>,
    <<"T","N","U","N","K","N","1","2">>,
    <<"G","N","0","3">>,
    <<"T","G","N","X","0","5">>,
    <<"T","T","1","2">>,
    <<"S","E","T","0","0","0","0","1","2","2">>,
    <<"S","E","T","U","N","K","N">>,
    <<"S","E","T","1","2">>,
    <<"S","E","T","0","0","0","0","1","2","2","\n">>,
    <<"S","R","T","0","0","0","0","2","3","8">>,
    <<"S","R","T","U","N","K","N","0","0","0","0","2","3","8">>,
    <<"S","E","T","g","a","r","b","a","g","e">>,
    <<"V","E","R","1","2">> }

Pairs ==
  { <<<<"S","S","T","P","L">>, <<"S","E","T","0","0","0","0","1","2","2">>>>,
    <<<<"S","E","T","0","0","0","0","1","2","2">>, <<"S","R","T","0","0","0","0","2","3","8">>>>,
    <<<<"S","S","T","P","L">>, <<"S","S","T","S","T">>>>,
    <<<<"S","S","T","S","T">>, <<"T","N","0","0","4","2">>>>,
    <<<<"T","N","0","0","4","2">>, <<"S","S","T","S","T">>>>,
    <<<<"M","U","T","0","1">>, <<"S","E","T","0","0","0","0","1","2","2">>>>,
    <<<<"S","E","T","0","0","0","0","1","2","2","\r">>, <<"S","R","T","0","0","0","0","2","3","8">>>>,
    <<<<"S","R","T","0","0","0","0","2","3","8">>, <<"S","E","T","0","0","0","0","1","2","2">>>>,
    <<<<"M","S","T","X","X">>, <<"S","E","T","0","0","0","0","1","2","2">>>> }

RECURSIVE Joined(_)
Joined(segs) == IF segs = <<>> THEN <<>> ELSE BANG7 \o Head(segs) \o Joined(Tail(segs))

Bursts ==
  { Joined(<<seg>>) : seg \in Segments } \cup { Joined(pr) : pr \in Pairs }
    \cup { Joined(<<<<"S","S","T","P","L">>, <<"M","U","T","0","1">>, <<"S","E","T","0","0","0","0","1","2","2">>, <<"S","R","T","0","0","0","0","2","3","8">>>>) }

ParseSubs == {1, 3}

\* a burst has been read from the socket
Arrives(raw_data) ==
  /\ ~(emitted # <<>> /\ emitted[1].k = "arrive")
  /\ emitted' = <<Ev("arrive", 0, raw_data, {})>>
  /\ Quiet
  /\ UNCHANGED <<subscribers, on_data_received_callback, mac_address, observed, devMode,
                 sock, opsLeft, flipsLeft>>

\* _listen hands it to _handle_response
HandleResponse ==
  /\ emitted # <<>> /\ emitted[1].k = "arrive"
  /\ \E r \in {_handle_response(media, subscribers, on_data_received_callback,
                                 emitted[1].v)} :
       /\ media' = r.media
       /\ emitted' = <<Ev("parsed", 0, emitted[1].v, {})>> \o r.ev
  /\ UNCHANGED <<writer, reader, status, cmd_result, fut, connect_lock, cleanup_lock,
                 heartbeat_task, hbCancel, subscribers, on_data_received_callback,
                 mac_address, observed, guards, stack, devMode, sock, opsLeft, flipsLeft,
                 offRun, disconnected>>

ParseNext ==
  \/ \E raw_data \in Bursts : Arrives(raw_data)
  \/ HandleResponse
  \/ \E c \in ParseSubs : register_subscriber(c, MatchOf(c))
  \/ \E c \in ParseSubs : remove_subscriber(c)

ParseInit == InitWith({"valid"}, {"good"}, TRUE, TRUE)

ParseSpec == ParseInit /\ [][ParseNext]_vars

\* ================================================================ properties
Sent == 1..Len(emitted)
IsSend(i) == emitted[i].k = "send"
\* the call logged at i returned failure at once: nothing sent, no slot made
RejectedAt(i) ==
  /\ i < Len(emitted)
  /\ emitted[i + 1].k = "sendret" /\ emitted[i + 1].s = emitted[i].s
  /\ "FALSE" \in emitted[i + 1].f
\* the call logged at i made a slot and wrote its frame
TransmittedAt(i) ==
  /\ i + 2 <= Len(emitted)
  /\ emitted[i + 1].k = "slot" /\ emitted[i + 1].s = emitted[i].s
  /\ emitted[i + 2].k = "tx" /\ emitted[i + 2].s = emitted[i].s

\* C1: a send_command call made while SHUTTING_DOWN is set with a body that
\* does not contain PWR01, or made while there is no socket handle, returns
\* False without writing a frame and without touching the result slot.
C1_RejectsInCooldown ==
  \A i \in Sent :
    (IsSend(i) /\ (("SHUTTING_DOWN" \in emitted[i].f /\ ~Contains(emitted[i].v, PWR01))
                   \/ "SOCKET_OPEN" \notin emitted[i].f))
      => RejectedAt(i)

C1_Witness ==
  \E i \in Sent :
    /\ IsSend(i) /\ "SHUTTING_DOWN" \in emitted[i].f
    /\ "SOCKET_OPEN" \in emitted[i].f /\ ~Contains(emitted[i].v, PWR01)
    /\ RejectedAt(i)

\* C2: a send_command call with body PWR01 made while SHUTTING_DOWN is set
\* and a socket handle exists is not rejected: it makes its slot and writes
\* its frame.
C2_PowerOnAccepted ==
  \A i \in Sent :
    (IsSend(i) /\ "SHUTTING_DOWN" \in emitted[i].f /\ "SOCKET_OPEN" \in emitted[i].f
       /\ Contains(emitted[i].v, PWR01))
      => TransmittedAt(i)

\* C3: SHUTTING_DOWN and WAKING_UP are never both set.
C3_FlagsExclusive == ~({"SHUTTING_DOWN", "WAKING_UP"} \subseteq status)

\* C4: send_command never makes a new result slot while the command that
\* owns the current slot is still waiting for it.
C4_OneInFlight ==
  \A i \in Sent : emitted[i].k = "slot" => "PREV_PENDING" \notin emitted[i].f

HasIn(es, k, t) == \E i \in 1..Len(es) : es[i].k = k /\ es[i].s = t
TagsIn(es, k, t) == UNION { es[i].f : i \in { j \in 1..Len(es) : es[j].k = k /\ es[j].s = t } }
\* the heartbeat's fail_count (its frame is the bottom one of its stack)
HbFailCount(stk) == IF stk[HB] = <<>> THEN 0 ELSE stk[HB][1].n
InCleanup(stk, t) == \E i \in 1..Len(stk[t]) : stk[t][i].f = "cleanup"

\* C5: when the heartbeat counts its second consecutive failed poll it sets
\* SHUTTING_DOWN and enters _cleanup at once; it detects a shutdown at no
\* other moment; and when that cleanup returns, the writer is None, the
\* transport is Off, the metadata is at its defaults, one more guard timer
\* is running and fail_count is 0.
C5_ShutdownDetection ==
  [][ /\ (HasIn(emitted', "pollfail", HB) /\ HbFailCount(stack) = FailThreshold - 1)
           => /\ HasIn(emitted', "detect", HB)
              /\ "SHUTTING_DOWN" \in TagsIn(emitted', "detect", HB)
              /\ \/ InCleanup(stack', HB)
                 \/ HasIn(emitted', "cleanup_noop", HB)
                 \/ HasIn(emitted', "cleanup_done", HB)
      /\ HasIn(emitted', "detect", HB)
           => HasIn(emitted', "pollfail", HB) /\ HbFailCount(stack) = 1
      /\ HasIn(emitted', "shutdown", HB)
           => /\ {"OFF", "META_DEFAULT"} \subseteq TagsIn(emitted', "shutdown", HB)
              /\ "SOCKET_OPEN" \notin TagsIn(emitted', "shutdown", HB)
              /\ guards' = guards + 1
              /\ HbFailCount(stack') = 0 ]_vars

\* C6: once disconnect() has been called, and until connect() is called
\* again, the heartbeat opens no connection and sends no poll query.
C6_NoHeartbeatAfterDisconnect ==
  disconnected => ~(HasIn(emitted, "open", HB) \/ HasIn(emitted, "tx", HB))

\* the listeners that let the synthesized off event through
OffListeners == { c \in DOMAIN subscribers : Matches(subscribers[c], SSTOFF) }
CountIn(es, k, t, v) ==
  Cardinality({ j \in 1..Len(es) : es[j].k = k /\ es[j].s = t /\ es[j].v = v })
\* the calls made by the cleanup that completed at i: they are the events
\* just before i
OffBurst(i) ==
  LET L == Cardinality(OffListeners) + (IF on_data_received_callback THEN 1 ELSE 0)
      seg == SubSeq(emitted, i - L, i - 1)
  IN /\ i - L >= 1
     /\ \A c \in OffListeners : CountIn(seg, "sub", c, SSTOFF) = 1
     /\ on_data_received_callback => CountIn(seg, "cb", 0, <<>>) = 1
     /\ \A j \in 1..Len(seg) : seg[j].k \in {"sub", "cb"}

\* C7: cleanups are serialized and only the first of a burst is effective:
\* between two moments at which the driver is not idle at most one cleanup
\* emits, none that took the lock with the driver idle emits, an effective
\* one calls each matching listener once with !7SSTOFF and the callback
\* once, and one that finds the writer None and the transport Off returns
\* with the state as it found it and nothing emitted.
C7_CleanupIdempotent ==
  /\ offRun <= 1
  /\ \A i \in Sent :
       /\ emitted[i].k = "cleanup_done"
            => "FROM_IDLE" \notin emitted[i].f /\ OffBurst(i)
       /\ (emitted[i].k = "cleanup" /\ {"SOCKET_OPEN", "OFF"} \cap emitted[i].f = {"OFF"})
            => /\ i < Len(emitted)
               /\ emitted[i + 1] = [emitted[i] EXCEPT !.k = "cleanup_noop"]

\* two cleanups overlapped: the second waited for the lock and, once it got
\* it, found the driver idle, with listeners and the callback in place
C7_Witness ==
  /\ offRun = 1
  /\ OffListeners # {} /\ on_data_received_callback
  /\ \E i \in Sent : emitted[i].k = "cleanup_noop" /\ "WAITED" \in emitted[i].f

\* C8: when a cleanup that was not a no-op completes, the writer is None,
\* the transport is Off and the metadata is at its defaults.
C8_CleanupPostcondition ==
  \A i \in Sent :
    emitted[i].k = "cleanup_done"
      => {"OFF", "META_DEFAULT"} \subseteq emitted[i].f /\ "SOCKET_OPEN" \notin emitted[i].f

\* C9: the heartbeat starts no open_connection and writes no poll query
\* while SHUTTING_DOWN or WAKING_UP is set.
C9_HeartbeatMuzzled ==
  \A i \in Sent :
    (emitted[i].s = HB /\ emitted[i].k \in {"open", "tx"})
      => emitted[i].f \cap {"SHUTTING_DOWN", "WAKING_UP"} = {}

Recovered == writer # None /\ ~HeartbeatGuarded(Flags(Now))
\* C10: without disconnect(), once the unit stays on (it accepts
\* connections and answers every query) the driver gets back to an open
\* socket with neither SHUTTING_DOWN nor WAKING_UP set.
C10_Reconnects == []<>(devMode # "good" \/ Recovered)

\* the position of task t: its top frame is coroutine f at pc
\* the send_command frames of t that are in the power-off hook
HookFrames(stk, t) ==
  { i \in 1..Len(stk[t]) :
      stk[t][i].f = "send" /\ stk[t][i].pc \in {"pwrsleep", "after_cleanup"} }

\* C11: when a command containing PWR00 is acknowledged, send_command sets
\* SHUTTING_DOWN and forces the transport to Off before it calls the
\* data-changed callback; after its sleep it runs _cleanup, which leaves no
\* handle and the socket it found closed; when the call returns (True) one
\* more expiry timer is running; and every expiry clears SHUTTING_DOWN.
C11_PowerOffHook ==
  [][ /\ \A t \in Tasks :
           /\ (TopIs(stack, t, "send", "wait") /\ fut[t] = "ok"
                 /\ Contains(stack[t][Len(stack[t])].arg, PWR00)
                 /\ stack'[t] # stack[t])
                => /\ TopIs(stack', t, "send", "pwrsleep")
                   /\ "SHUTTING_DOWN" \in status' /\ media'.transport_state = "OFF"
                   /\ on_data_received_callback
                        => /\ HasIn(emitted', "cb", 0)
                           /\ {"SHUTTING_DOWN", "OFF"} \subseteq TagsIn(emitted', "cb", 0)
           /\ (TopIs(stack, t, "send", "pwrsleep") /\ stack'[t] # stack[t])
                => \/ InCleanup(stack', t)
                   \/ HasIn(emitted', "cleanup_noop", t)
                   \/ HasIn(emitted', "cleanup_done", t)
           /\ (HookFrames(stack, t) # {} /\ HasIn(emitted', "cleanup", t))
                => /\ writer' = None
                   /\ writer # None => sock'[writer] # "open"
           /\ (HookFrames(stack, t) # {} /\ HookFrames(stack', t) = {})
                => /\ guards' = guards + 1
                   /\ \E j \in 1..Len(emitted') :
                        /\ emitted'[j].k = "sendret" /\ emitted'[j].s = t
                        /\ "TRUE" \in emitted'[j].f
      /\ guards' < guards => "SHUTTING_DOWN" \notin status' ]_vars

\* a power-off was acknowledged and its send_command has returned True with
\* the cooldown running
C11_Witness ==
  /\ "SHUTTING_DOWN" \in status /\ guards > 0 /\ writer = None
  /\ \E i \in Sent : /\ emitted[i].k = "sendret" /\ Contains(emitted[i].v, PWR00)
                      /\ "TRUE" \in emitted[i].f

\* C12: a send_command whose wait times out, or whose future was given the
\* nack exception, returns False having changed no flag, handle or media
\* field; called by an entity (alone or through power_off) the whole step
\* changes nothing else either: no cooldown, no cleanup, no timer.
C12_FailureHasNoEffect ==
  [][ \A t \in Tasks :
        (TopIs(stack, t, "send", "wait") /\ fut[t] \in {"pending", "exc"}
           /\ stack'[t] # stack[t] /\ (t = HB => hbCancel # "requested"))
          => /\ emitted' # <<>>
             /\ emitted'[1] = Ev("sendret", t, stack[t][Len(stack[t])].arg,
                                 Snapshot(Now) \cup {"FALSE"})
             /\ (t \in Users /\ stack[t][1].f \in {"send", "power_off"})
                  => /\ stack'[t] = <<>>
                     /\ status' = status /\ writer' = writer /\ reader' = reader
                     /\ media' = media /\ guards' = guards
                     /\ cleanup_lock' = cleanup_lock
                     /\ ~HasIn(emitted', "cleanup", t) ]_vars

\* a PWR00 sent by power_off got no answer, and its call has just returned
\* False with the driver still connected
C12_Witness ==
  /\ emitted # <<>> /\ emitted[1].k = "sendret"
  /\ Contains(emitted[1].v, PWR00) /\ "FALSE" \in emitted[1].f
  /\ writer # None /\ "SHUTTING_DOWN" \notin status /\ guards = 0

\* a step in which caller u calls the public method f
Calls(u, f) ==
  /\ stack[u] = <<>> /\ opsLeft' < opsLeft
  /\ \/ stack'[u] # <<>> /\ stack'[u][1].f = f
     \/ \E i \in 1..Len(emitted') : emitted'[i].k = "ret" /\ emitted'[i].s = u
                                      /\ f \in emitted'[i].f
Returned(es, u, f, v) ==
  \E i \in 1..Len(es) : es[i].k = "ret" /\ es[i].s = u /\ {f, v} \subseteq es[i].f

\* C13: power_on called while not connected on a driver without a hardware
\* address returns False in the same step, sends no wake packet, makes no
\* connection attempt, and leaves the transport Off and WAKING_UP clear.
C13_NoAddressFails ==
  [][ \A u \in Users :
        (Calls(u, "power_on") /\ ~is_connected /\ mac_address = "none")
          => /\ Returned(emitted', u, "power_on", "FALSE")
             /\ stack'[u] = <<>>
             /\ ~HasIn(emitted', "wol", u) /\ ~HasIn(emitted', "open", u)
             /\ connect_lock' = connect_lock /\ sock' = sock
             /\ writer' = writer /\ reader' = reader
             /\ media'.transport_state = "OFF" /\ "WAKING_UP" \notin status' ]_vars

\* power_on has just failed for want of an address, with the unit reachable
\* and the driver not connected
C13_Witness ==
  /\ mac_address = "none" /\ devMode = "good" /\ writer = None
  /\ Returned(emitted, -1, "power_on", "FALSE")
  /\ media.transport_state = "OFF" /\ "WAKING_UP" \notin status

\* C14: power_on called while not connected sets WAKING_UP, clears
\* SHUTTING_DOWN, sets the transport to the powering-on value and calls the
\* data-changed callback, which sees all three, before anything else happens
\* in the step: no wake packet, connection attempt or frame precedes the
\* callback, and the task that next runs finds the same three in place.
C14_PowerOnAtomic ==
  [][ \A u \in Users :
        (Calls(u, "power_on") /\ ~is_connected /\ mac_address = "valid")
          => /\ on_data_received_callback
                  => /\ emitted' # <<>> /\ emitted'[1].k = "cb"
                     /\ {"WAKING_UP", "SPLASH"} \subseteq emitted'[1].f
                     /\ "SHUTTING_DOWN" \notin emitted'[1].f
             /\ \A i \in 1..Len(emitted') :
                  emitted'[i].k \in {"wol", "open", "tx", "send"} => i > 1
             /\ stack'[u] # <<>>
                  => /\ "WAKING_UP" \in status' /\ "SHUTTING_DOWN" \notin status'
                     /\ media'.transport_state = "SPLASH" ]_vars

\* power_on was called during a cooldown: the callback saw the wake lock and
\* the packets went out after it
C14_Witness ==
  /\ guards > 0 /\ TopIs(stack, -1, "power_on", "sleep")
  /\ Len(emitted) = 3 /\ emitted[1].k = "cb" /\ "WAKING_UP" \in emitted[1].f
  /\ emitted[2].k = "wol" /\ emitted[3].k = "wol"
  /\ "SHUTTING_DOWN" \notin status

\* a step in which the power_on call of u ends
PowerOnEnds(u) ==
  /\ Calls(u, "power_on") \/ (stack[u] # <<>> /\ stack[u][1].f = "power_on")
  /\ stack'[u] = <<>>
\* the step in which the last connect attempt of the wake loop fails
WakeExhausted(u) ==
  /\ stack[u] # <<>> /\ stack[u][1].f = "power_on"
  /\ stack[u][1].n = WakeAttempts - 1 /\ stack[u][1].pc = "after_connect"
  /\ stack'[u] = <<>> /\ ~HasIn(emitted', "send", u)

\* C15: a power_on call ends by returning a value, with WAKING_UP clear; and
\* when every connect attempt of the wake loop has failed it returns False
\* with the transport Off, having called the data-changed callback.  (That
\* the call ends at all is the liveness half of the claim; this is the
\* safety half.)
C15_PowerOnReturns ==
  [][ \A u \in Users :
        /\ PowerOnEnds(u)
             => /\ \/ Returned(emitted', u, "power_on", "TRUE")
                   \/ Returned(emitted', u, "power_on", "FALSE")
                /\ "WAKING_UP" \notin status'
        /\ WakeExhausted(u)
             => /\ Returned(emitted', u, "power_on", "FALSE")
                /\ media'.transport_state = "OFF"
                /\ on_data_received_callback => HasIn(emitted', "cb", 0) ]_vars

InWake(stk, u) == stk[u] # <<>> /\ stk[u][1].f = "power_on" /\ stk[u][1].pc # "ret_send"
Indices(es, k, t) == { i \in 1..Len(es) : es[i].k = k /\ es[i].s = t }
FlagOf(es, k, t, v) == \E i \in Indices(es, k, t) : v \in es[i].f

PwrRet(es, u) == { i \in Indices(es, "sendret", u) : es[i].v = PWR01 }

\* C16: the wake loop calls connect() only on waking from its sleep, once,
\* with fewer than 7 failures behind it, and each failure is counted: at most
\* 7 attempts.  When a connect() returns True it calls send_command("PWR01")
\* next, once, and never connect() again; and it returns what that command
\* returned, with WAKING_UP clear, acknowledged or not.
C16_WakeLoop ==
  [][ \A u \in Users :
        /\ (InWake(stack, u) /\ HasIn(emitted', "conncall", u))
             => /\ TopIs(stack, u, "power_on", "sleep")
                /\ stack[u][1].n < WakeAttempts
                /\ Cardinality(Indices(emitted', "conncall", u)) = 1
        /\ (InWake(stack, u) /\ FlagOf(emitted', "connret", u, "FALSE"))
             => \/ stack'[u] = <<>> /\ stack[u][1].n = WakeAttempts - 1
                \/ /\ TopIs(stack', u, "power_on", "sleep")
                   /\ stack'[u][1].n = stack[u][1].n + 1
        /\ (InWake(stack, u) /\ FlagOf(emitted', "connret", u, "TRUE"))
             => \A j \in Indices(emitted', "connret", u) :
                  /\ { i \in Indices(emitted', "send", u) : i > j } = {j + 1}
                  /\ emitted'[j + 1].v = PWR01
                  /\ \A i \in Indices(emitted', "conncall", u) : i < j
        /\ (InWake(stack, u) /\ stack[u][1].pc = "after_pwr" /\ stack'[u] # stack[u])
             => ~HasIn(emitted', "conncall", u) /\ ~HasIn(emitted', "send", u)
        /\ (InWake(stack, u) /\ PwrRet(emitted', u) # {})
             => /\ stack'[u] = <<>> /\ "WAKING_UP" \notin status'
                /\ Cardinality(PwrRet(emitted', u)) = 1
                /\ \A i \in PwrRet(emitted', u), v \in {"TRUE", "FALSE"} :
                     v \in emitted'[i].f <=> Returned(emitted', u, "power_on", v) ]_vars

\* the wake loop connected, its PWR01 was not acknowledged, and power_on has
\* returned False with WAKING_UP clear and the driver connected
C16_Witness ==
  /\ Returned(emitted, -1, "power_on", "FALSE") /\ HasIn(emitted, "sendret", -1)
  /\ emitted[1].k = "sendret"
  /\ writer # None /\ "WAKING_UP" \notin status

\* the tasks inside open_connection
Opening == { t \in Tasks : TopIs(stack, t, "connect", "open") }

\* C17: at most one open_connection is in progress at any time, and a connect()
\* that waited for the lock and finds the driver connected when it gets it
\* returns True without opening a socket.
C17_ConnectCollapses ==
  [][ /\ Cardinality(Opening) <= 1
      /\ \A t \in Tasks :
           (TopIs(stack, t, "connect", "lockwait") /\ stack'[t] # stack[t]
              /\ is_connected /\ (t = HB => hbCancel # "requested"))
             => /\ emitted' # <<>> /\ emitted'[1].k = "connret" /\ emitted'[1].s = t
                /\ "TRUE" \in emitted'[1].f
                /\ ~HasIn(emitted', "open", t)
                /\ sock' = sock /\ writer' = writer ]_vars

\* a caller's connect() that waited behind the heartbeat's has returned True
\* on the socket the heartbeat opened
C17_Witness ==
  /\ emitted # <<>> /\ emitted[1] = Ev("connret", -1, <<>>, {"TRUE"})
  /\ writer # None /\ Cardinality({ s \in Socks : sock[s] = "open" }) = 1

OnEvents(es, c) == { i \in 1..Len(es) : es[i].k = "sub" /\ es[i].s = c /\ es[i].v = SSTON }
Transmissions(es) == { i \in 1..Len(es) : es[i].k = "tx" }
Opened(t) == \E s \in Socks : sock[s] # "open" /\ sock'[s] = "open" /\ writer' = s

\* C18: in the step in which a connect()'s open_connection ends, if a socket
\* was opened every subscriber whose match fits "!7SSTON" (and no other) is
\* called with it exactly once, before anything is written to the socket and
\* while the new listen task has not run; if none was opened no subscriber is
\* called with it, writer and reader are None and connect() returns False.
C18_OnNotification ==
  [][ \A t \in Tasks :
        (TopIs(stack, t, "connect", "open") /\ stack'[t] # stack[t]
           /\ (t = HB => hbCancel # "requested"))
          => IF Opened(t)
             THEN /\ \A c \in DOMAIN subscribers :
                       /\ Cardinality(OnEvents(emitted', c))
                            = IF Matches(subscribers[c], SSTON) THEN 1 ELSE 0
                       /\ \A i \in OnEvents(emitted', c), j \in Transmissions(emitted') : i < j
                  /\ TopIs(stack', writer', "listen", "start")
                  /\ ~FlagOf(emitted', "connret", t, "FALSE")
             ELSE /\ \A c \in DOMAIN subscribers : OnEvents(emitted', c) = {}
                  /\ writer' = None /\ reader' = None /\ sock' = sock
                  /\ emitted' # <<>> /\ emitted'[1] = Ev("connret", t, <<>>, {"FALSE"}) ]_vars

\* a socket has just been opened with both listeners registered: each got the
\* notification, then ?SST went out
C18_Witness ==
  /\ DOMAIN subscribers = SubIds
  /\ Len(emitted) >= 3
  /\ emitted[1] = Ev("sub", 1, SSTON, {}) /\ emitted[2] = Ev("sub", 2, SSTON, {})
  /\ Transmissions(emitted) # {}
  /\ writer # None /\ TopIs(stack, writer, "listen", "start")

\* the queries after ?SST, as _poll_sequenced lists them
AfterSst(active) ==
  IF active
  THEN <<Q_MUT, Q_MST, Q_SET, Q_SRT, Q_SGN, Q_STC, Q_STG, Q_STT>>
  ELSE <<Q_MUT, Q_MST>>

\* the commands task t has passed to send_command in the events es, in order
RECURSIVE SendsOf(_, _)
SendsOf(es, t) ==
  IF es = <<>> THEN <<>>
  ELSE (IF Head(es).k = "send" /\ Head(es).s = t THEN <<Head(es).v>> ELSE <<>>)
         \o SendsOf(Tail(es), t)

Wired(es, t) == { es[i].v : i \in Indices(es, "tx", t) }

\* t is inside send_command(cmd) called by _poll_sequenced at pc
PollSending(stk, t, pc) ==
  /\ Len(stk[t]) >= 2 /\ stk[t][Len(stk[t])].f = "send"
  /\ stk[t][Len(stk[t]) - 1].f = "poll" /\ stk[t][Len(stk[t]) - 1].pc = pc

\* C19: a poll calls send_command("?SST") first and nothing else until it has
\* returned; if it returned False the poll returns False and sends nothing
\* more; if True the poll goes on with ?MUT, ?MST and, exactly when the
\* transport is media-active at that moment, ?SET ?SRT ?SGN ?STC ?STG ?STT,
\* one after each 0.03 s sleep, whatever each returns, and then returns True.
\* Nothing but the command in hand is written to the socket.
C19_PollSequence ==
  [][ \A t \in Tasks :
        LET sends == SendsOf(emitted', t)
            top == stack[t][Len(stack[t])]
            top2 == stack'[t][Len(stack'[t])]
        IN /\ \A i \in Indices(emitted', "pollcall", t) :
                /\ SendsOf(SubSeq(emitted', i, Len(emitted')), t) = <<Q_SST>>
                /\ emitted'[i + 1] = Ev("send", t, Q_SST, emitted'[i + 1].f)
           /\ (PollSending(stack, t, "after_sst") /\ stack'[t] # stack[t])
                => /\ top.arg = Q_SST
                   /\ IF FlagOf(emitted', "sendret", t, "TRUE")
                      THEN /\ sends = <<Q_MUT>>
                           /\ PollSending(stack', t, "after_cmd") \/ TopIs(stack', t, "poll", "sleep")
                           /\ LET pf == CHOOSE f \in { stack'[t][i] : i \in 1..Len(stack'[t]) } :
                                          f.f = "poll"
                              IN pf.n = 1 /\ (pf.m = 1 <=> is_media_active(media))
                           /\ ~HasIn(emitted', "pollret", t)
                      ELSE /\ sends = <<>>
                           /\ FlagOf(emitted', "pollret", t, "FALSE")
           /\ (PollSending(stack, t, "after_cmd") /\ stack'[t] # stack[t])
                => /\ sends = <<>> /\ ~HasIn(emitted', "pollret", t)
                   /\ TopIs(stack', t, "poll", "sleep")
                   /\ top2.n = stack[t][Len(stack[t]) - 1].n
                   /\ top2.m = stack[t][Len(stack[t]) - 1].m
           /\ (TopIs(stack, t, "poll", "sleep") /\ stack'[t] # stack[t])
                => LET cmds == AfterSst(top.m = 1)
                   IN IF top.n < Len(cmds)
                      THEN /\ sends = <<cmds[top.n + 1]>>
                           /\ ~HasIn(emitted', "pollret", t)
                           /\ \/ PollSending(stack', t, "after_cmd")
                                 /\ stack'[t][Len(stack'[t]) - 1].n = top.n + 1
                                 /\ stack'[t][Len(stack'[t]) - 1].m = top.m
                              \/ TopIs(stack', t, "poll", "sleep")
                                 /\ top2.n = top.n + 1 /\ top2.m = top.m
                      ELSE /\ sends = <<>>
                           /\ FlagOf(emitted', "pollret", t, "TRUE")
           /\ Wired(emitted', t) \subseteq { BANG7 \o c : c \in { sends[i] : i \in 1..Len(sends) } }
    ]_vars

\* the heartbeat's poll of a playing unit has got to its last query, ?STT
C19_Witness ==
  /\ TopIs(stack, HB, "poll", "sleep")
  /\ stack[HB][Len(stack[HB])].n = 8 /\ stack[HB][Len(stack[HB])].m = 1
  /\ \E i \in Indices(emitted, "sendret", HB) : emitted[i].v = Q_STT

\* token c occurs in the chunk, whatever the case of its letters
Has(chunk, c) ==
  \E i \in 1..(Len(chunk) - Len(c) + 1) :
    \A j \in 1..Len(c) : LowerChar(chunk[i + j - 1]) = c[j]

\* a listen task has just read a chunk while a command's slot was pending
Heard(es) == es # <<>> /\ es[1].k = "rx" /\ "PENDING" \in es[1].f

\* C20 (as the code has it): a chunk read while a slot is pending resolves it
\* to success when it contains ack and not nack, even if it also contains
\* error; to failure when it contains nack, or error without ack; and leaves
\* it pending when it contains none of the three.
C20_SlotResolution ==
  [][ Heard(emitted')
        => LET chunk == emitted'[1].v
           IN fut'[cmd_result]
                = IF Has(chunk, ACK) /\ ~Has(chunk, NACK) THEN "ok"
                  ELSE IF Has(chunk, NACK) \/ Has(chunk, ERROR) THEN "exc"
                  ELSE "pending" ]_vars

\* C20 (as stated): every chunk that contains nack or error resolves the
\* pending slot to failure, and only a chunk with ack and neither of them
\* resolves it to success.
C20_AsStated ==
  [][ Heard(emitted')
        => LET chunk == emitted'[1].v
           IN fut'[cmd_result]
                = IF Has(chunk, NACK) \/ Has(chunk, ERROR) THEN "exc"
                  ELSE IF Has(chunk, ACK) THEN "ok"
                  ELSE "pending" ]_vars

\* a read that carried an acknowledgment and an error line has resolved the
\* pending slot to success
C20_Witness ==
  /\ Heard(emitted) /\ emitted[1].v = ACK \o <<"\r">> \o ERROR
  /\ cmd_result # None /\ fut[cmd_result] = "ok"

\* ------------------------------------------------------------ the parser
\* the step is _handle_response working on the burst that arrived
Parsing ==
  /\ emitted # <<>> /\ emitted[1].k = "arrive"
  /\ emitted' # <<>> /\ emitted'[1].k = "parsed"

\* the segments of the burst that the loop does not skip
RECURSIVE Kept(_)
Kept(segs) ==
  IF segs = <<>> THEN <<>>
  ELSE (IF SkipSegment(Head(segs)) THEN <<>> ELSE <<Head(segs)>>) \o Kept(Tail(segs))

BurstSegs == Kept(Split(emitted[1].v, BANG7))

\* the media fields when the loop has handled the first k segments
MediaAfter(k) ==
  ApplySegments([media |-> media, state_changed |-> FALSE, time_changed |-> FALSE,
                 ev |-> <<>>], subscribers, SubSeq(BurstSegs, 1, k)).media

StateFields ==
  {"transport_state", "disc_status", "tray_open", "is_muted", "current_group",
   "total_groups", "current_track", "total_tracks", "elapsed_seconds",
   "remaining_seconds"}

Differ(m1, m2, fields) == \E f \in fields : m1[f] # m2[f]

\* some segment of the burst, or the clearing at its end, changed a field
BurstChanged(fields) ==
  \/ \E k \in 1..Len(BurstSegs) : Differ(MediaAfter(k - 1), MediaAfter(k), fields)
  \/ Differ(MediaAfter(Len(BurstSegs)), media', fields)

Callbacks(es) == Cardinality({ i \in 1..Len(es) : es[i].k = "cb" })

\* C21: handling a burst calls the data-changed callback once if a segment
\* (or the clearing at the end) changed the value of a device-state field, and
\* not at all if nothing was changed.
C21_CallbackOncePerBurst ==
  [][ (Parsing /\ on_data_received_callback)
        => Callbacks(emitted') = IF BurstChanged(StateFields) THEN 1 ELSE 0 ]_vars

IsTime(seg) == IsPrefix(<<"S","E","T">>, seg) \/ IsPrefix(<<"S","R","T">>, seg)
Delivered(es, c) == { i \in 1..Len(es) : es[i].k = "sub" /\ es[i].s = c }
SSTPL_SET == BANG7 \o <<"S","S","T","P","L">> \o BANG7 \o <<"S","E","T","0","0","0","0","1","2","2">>

\* C22: no listener, with or without a match string, is called with a SET or
\* SRT segment; and of a burst of one SST segment that changes the transport
\* and one SET segment, a listener registered with match "SST" gets exactly
\* one call, the SST segment.
C22_TimeTicksNotDelivered ==
  [][ Parsing
        => /\ \A c \in DOMAIN subscribers : \A i \in Delivered(emitted', c) :
                ~IsTime(SubSeq(emitted'[i].v, 3, Len(emitted'[i].v)))
           /\ (/\ Len(BurstSegs) = 2
               /\ \E k \in 1..2 :
                    /\ IsPrefix(SST, BurstSegs[k]) /\ IsPrefix(<<"S","E","T">>, BurstSegs[3 - k])
                    /\ MediaAfter(k).transport_state # MediaAfter(k - 1).transport_state
               /\ 3 \in DOMAIN subscribers)
                => /\ Cardinality(Delivered(emitted', 3)) = 1
                   /\ \A i \in Delivered(emitted', 3) :
                        IsPrefix(BANG7 \o SST, emitted'[i].v) ]_vars

\* "!7SSTPL!7SET0000122" has been handled with both listeners registered and
\* the unit not playing before: each listener was called with !7SSTPL only
C22_Witness ==
  /\ emitted # <<>> /\ emitted[1] = Ev("parsed", 0, SSTPL_SET, {})
  /\ DOMAIN subscribers = ParseSubs
  /\ media.elapsed_seconds = 82
  /\ Cardinality(Delivered(emitted, 3)) = 1 /\ Cardinality(Delivered(emitted, 1)) = 1

\* ------------------------------------------------------- the subscriber bus
CountOf(es, p) == Cardinality({ i \in 1..Len(es) : es[i].k = "sub" /\ es[i].v = p })
CountTo(es, c, p) ==
  Cardinality({ i \in 1..Len(es) : es[i].k = "sub" /\ es[i].s = c /\ es[i].v = p })

\* what the step put on the bus from the wire: the segments _handle_response
\* notifies of the chunk the listen loop has just read, as a listener without
\* a match string would get them
WirePublished ==
  IF emitted' # <<>> /\ emitted'[1].k = "rx"
       /\ Contains(CleanPayload(emitted'[1].v), BANG7)
  THEN _handle_response(media, [c \in {1} |-> NoMatch], FALSE,
                        CleanPayload(emitted'[1].v)).ev
  ELSE <<>>

\* how often the step put payload p on the bus: once per socket opened
\* (!7SSTON), once per effective cleanup (!7SSTOFF), and the wire segments
Published(p) ==
  CountOf(WirePublished, p)
    + (IF p = SSTON /\ \E s \in Socks : sock[s] # "open" /\ sock'[s] = "open"
       THEN 1 ELSE 0)
    + (IF p = SSTOFF
       THEN Cardinality({ i \in 1..Len(emitted') : emitted'[i].k = "cleanup_done" })
       ELSE 0)

BusPayloads ==
  {SSTON, SSTOFF} \cup { WirePublished[i].v : i \in 1..Len(WirePublished) }
    \cup { emitted'[i].v : i \in { j \in 1..Len(emitted') : emitted'[j].k = "sub" } }

\* C23: of every payload put on the bus (a wire segment or the synthesized
\* !7SSTON / !7SSTOFF) a registered listener without a match string gets every
\* publication, a registered listener with a match string gets it if and only
\* if the payload contains the string, and a listener that is not registered
\* gets none.
C23_BusFiltering ==
  [][ \A p \in BusPayloads : \A c \in SubIds :
        CountTo(emitted', c, p)
          = IF c \in DOMAIN subscribers
                 /\ (subscribers[c] = NoMatch \/ Contains(p, subscribers[c]))
            THEN Published(p) ELSE 0 ]_vars

\* with both listeners registered a chunk from the unit carried !7SSTST, which
\* went to the listener without a match string and not to the one that
\* matches "ON"
C23_Witness ==
  /\ DOMAIN subscribers = SubIds
  /\ CountTo(emitted, 1, BANG7 \o <<"S","S","T","S","T">>) = 1
  /\ CountTo(emitted, 2, BANG7 \o <<"S","S","T","S","T">>) = 0

\* ------------------------------------------------------ the end of a burst
PositionFields ==
  {"current_group", "total_groups", "current_track", "total_tracks",
   "elapsed_seconds", "remaining_seconds", "total_seconds"}
DiscFields == {"disc_status", "tray_open"}

\* the media fields when the segment loop and the total of the burst are
\* done and the lifecycle guard has not been looked at yet
BeforeGuard ==
  WithTotal(ApplySegments([media |-> media, state_changed |-> FALSE,
                           time_changed |-> FALSE, ev |-> <<>>],
                          subscribers, BurstSegs))

\* C24: when a burst has been handled and left the transport outside the
\* active-media states with a position field (group, track, elapsed,
\* remaining, total) that is not zero, every position field and the disc
\* state and tray are at their defaults afterwards.
C24_GuardClearsPosition ==
  [][ (Parsing /\ ~is_media_active(BeforeGuard)
         /\ Differ(BeforeGuard, InitMedia, PositionFields))
        => ~Differ(media', InitMedia, PositionFields \cup DiscFields) ]_vars

TimeFields == {"elapsed_seconds", "remaining_seconds"}
QUAD ==
  BANG7 \o <<"S","S","T","P","L">> \o BANG7 \o <<"M","U","T","0","1">>
    \o BANG7 \o <<"S","E","T","0","0","0","0","1","2","2">>
    \o BANG7 \o <<"S","R","T","0","0","0","0","2","3","8">>

\* C25: a burst in which a segment changed the elapsed or the remaining time
\* and which ends with the transport in an active-media state and both times
\* positive leaves total_seconds = elapsed_seconds + remaining_seconds; every
\* other burst leaves total_seconds as it was, or at 0 if it cleared the
\* metadata.
C25_TotalSeconds ==
  [][ Parsing =>
        IF /\ BurstChanged(TimeFields)
           /\ is_media_active(media')
           /\ media'.elapsed_seconds > 0 /\ media'.remaining_seconds > 0
        THEN media'.total_seconds = media'.elapsed_seconds + media'.remaining_seconds
        ELSE \/ media'.total_seconds = media.total_seconds
             \/ LifecycleGuard(BeforeGuard) /\ media'.total_seconds = 0 ]_vars

\* "!7SSTPL!7MUT01!7SET0000122!7SRT0000238" has been handled: 82 s elapsed,
\* 158 s remaining, 240 s in total
C25_Witness ==
  /\ emitted # <<>> /\ emitted[1] = Ev("parsed", 0, QUAD, {})
  /\ media.elapsed_seconds = 82 /\ media.remaining_seconds = 158
  /\ media.total_seconds = 240 /\ media.transport_state = "PLAY"

\* ------------------------------------------------------------- at rest
WakeInProgress ==
  "WAKING_UP" \in status \/ \E u \in Users : stack[u] # <<>> /\ stack[u][1].f = "power_on"
CleanupInProgress == \E t \in Coroutines : InCleanup(stack, t)

\* C26: whenever there is no socket handle and neither a wake sequence nor a
\* cleanup is in progress, the transport is Off and the groups, tracks,
\* times, disc state and tray are at their defaults.
C26_RestingState ==
  (writer = None /\ ~WakeInProgress /\ ~CleanupInProgress)
    => media.transport_state = "OFF" /\ MetaDefault(media)

\* ------------------------------------------------------------ the decoders
TimeSegs == { k \in 1..Len(BurstSegs) : IsTime(BurstSegs[k]) }
\* the time that the loop stored for segment k
StoredTime(k) ==
  IF IsPrefix(<<"S","E","T">>, BurstSegs[k]) THEN MediaAfter(k).elapsed_seconds
  ELSE MediaAfter(k).remaining_seconds
PayloadOf(seg) == SubSeq(seg, 4, Len(seg))
EndsIn7Digits(p) == Len(p) >= 7 /\ \A i \in (Len(p) - 6)..Len(p) : p[i] \in Digits
\* HHHMMSS at the end of p, in seconds
Seconds7(p) ==
  LET v(i) == DigitVal(p[Len(p) - 7 + i])
  IN (100 * v(1) + 10 * v(2) + v(3)) * 3600 + (10 * v(4) + v(5)) * 60 + 10 * v(6) + v(7)
Chomp(p) == IF p # <<>> /\ p[Len(p)] = "\n" THEN SubSeq(p, 1, Len(p) - 1) ELSE p
SET122 == <<"S","E","T","0","0","0","0","1","2","2">>

\* C27: a SET or SRT segment that contains UNKN stores 0; any other stores
\* hours * 3600 + minutes * 60 + seconds of the HHHMMSS in the last seven
\* characters of its payload, a line feed at the very end not counted, and 0
\* if these are not seven digits.
C27_TimeDecoding ==
  [][ Parsing => \A k \in TimeSegs :
        StoredTime(k) =
          IF Contains(BurstSegs[k], UNKN) THEN 0
          ELSE IF EndsIn7Digits(Chomp(PayloadOf(BurstSegs[k])))
               THEN Seconds7(Chomp(PayloadOf(BurstSegs[k])))
               ELSE 0 ]_vars

\* C27 as stated: the same, with every payload that does not end in seven
\* digits decoded to 0.
C27_AsStated ==
  [][ Parsing => \A k \in TimeSegs :
        StoredTime(k) =
          IF Contains(BurstSegs[k], UNKN) THEN 0
          ELSE IF EndsIn7Digits(PayloadOf(BurstSegs[k]))
               THEN Seconds7(PayloadOf(BurstSegs[k]))
               ELSE 0 ]_vars

\* while playing, "!7SET0000122" followed by a line feed has been handled and
\* the elapsed time is 82 s
C27_Witness ==
  /\ emitted # <<>> /\ emitted[1] = Ev("parsed", 0, BANG7 \o SET122 \o <<"\n">>, {})
  /\ media.transport_state = "PLAY" /\ media.elapsed_seconds = 82

\* C28: _time_to_seconds("0000122") is 82 (0 h 01 min 22 s) and
\* _time_to_seconds("garbage") is 0: these are the elapsed times that
\* "!7SET0000122" and "!7SETgarbage" store, and leave when the unit is playing.
C28_TimeExamples ==
  [][ /\ (Parsing /\ emitted[1].v = BANG7 \o SET122)
         => /\ _time_to_seconds(PayloadOf(BurstSegs[1])) = 82
            /\ MediaAfter(1).elapsed_seconds = 82
            /\ is_media_active(media) => media'.elapsed_seconds = 82
      /\ (Parsing /\ emitted[1].v = BANG7 \o <<"S","E","T","g","a","r","b","a","g","e">>)
         => /\ _time_to_seconds(PayloadOf(BurstSegs[1])) = 0
            /\ media'.elapsed_seconds = 0 ]_vars

\* C28 as stated: "0000122" gives 122.
C28_AsStated ==
  [][ /\ (Parsing /\ emitted[1].v = BANG7 \o SET122)
         => /\ _time_to_seconds(PayloadOf(BurstSegs[1])) = 122
            /\ MediaAfter(1).elapsed_seconds = 122
      /\ (Parsing /\ emitted[1].v = BANG7 \o <<"S","E","T","g","a","r","b","a","g","e">>)
         => /\ _time_to_seconds(PayloadOf(BurstSegs[1])) = 0
            /\ media'.elapsed_seconds = 0 ]_vars

\* while playing, "!7SET0000122" has been handled and the elapsed time is 82 s
C28_Witness ==
  /\ emitted # <<>> /\ emitted[1] = Ev("parsed", 0, BANG7 \o SET122, {})
  /\ media.transport_state = "PLAY" /\ media.elapsed_seconds = 82

NumFields == {"current_group", "total_groups", "current_track", "total_tracks"}
NumSegs == { k \in 1..Len(BurstSegs) : SegKind(BurstSegs[k]) = "NUM" }
\* the field that the prefix of a group/track segment selects: GN*, TGNX,
\* TN*, TT*
FieldOf(seg) ==
  IF IsPrefix(<<"G","N">>, seg) THEN "current_group"
  ELSE IF IsPrefix(<<"T","G","N","X">>, seg) THEN "total_groups"
  ELSE IF IsPrefix(<<"T","N">>, seg) THEN "current_track"
  ELSE "total_tracks"
Zeros(n) == [i \in 1..n |-> "0"]
\* v is the digit string ds without its leading zeros, "0" if nothing is left
Normalised(ds, v) ==
  IF ds = Zeros(Len(ds)) THEN v = ZERO
  ELSE v # <<>> /\ v[1] # "0" /\ \E n \in 0..Len(ds) : ds = Zeros(n) \o v

\* C29: a group/track segment stores, in the field its prefix selects and in
\* no other, "0" if it contains UNKN and otherwise its digits without the
\* leading zeros ("0" if none is left).
C29_NumericNormalisation ==
  [][ Parsing => \A k \in NumSegs :
        /\ IF Contains(BurstSegs[k], UNKN)
           THEN MediaAfter(k)[FieldOf(BurstSegs[k])] = ZERO
           ELSE Normalised(DigitsOf(BurstSegs[k]), MediaAfter(k)[FieldOf(BurstSegs[k])])
        /\ ~Differ(MediaAfter(k - 1), MediaAfter(k), NumFields \ {FieldOf(BurstSegs[k])}) ]_vars

\* while playing, "!7TN0042" has been handled and the current track is "42"
C29_Witness ==
  /\ emitted # <<>> /\ emitted[1] = Ev("parsed", 0, BANG7 \o <<"T","N","0","0","4","2">>, {})
  /\ media.transport_state = "PLAY" /\ media.current_track = <<"4","2">>

MuteSegs == { k \in 1..Len(BurstSegs) : IsPrefix(<<"M","U","T">>, BurstSegs[k]) }

\* C30: a MUT segment sets the mute flag to true if the two characters after
\* MUT are 00 and to false if they are 01, whatever follows them.
C30_MuteDecoding ==
  [][ Parsing => \A k \in MuteSegs :
        /\ SubSeq(BurstSegs[k], 4, 5) = <<"0","0">> => MediaAfter(k).is_muted
        /\ SubSeq(BurstSegs[k], 4, 5) = <<"0","1">> => ~MediaAfter(k).is_muted ]_vars

\* ---------------------------------------------------------------- C31
\* the heartbeat's own connect() returns True after a connect-time
\* _poll_sequenced that returned True
FreshReconnect(es) ==
  /\ "TRUE" \in TagsIn(es, "connret", HB)
  /\ TagsIn(es, "pollret", HB) = {"TRUE"}

\* C31: the heartbeat declares a shutdown at its second counted failure
\* (C5), so a fresh reconnect whose connect-time poll succeeded must leave
\* no failed poll counted: one failed poll after it does not reach the
\* threshold.
C31_DetectionOnOneConnection ==
  [][FreshReconnect(emitted') => HbFailCount(stack') = 0]_vars

\* ---------------------------------------------------------------- C32
\* C32: without disconnect(), a socket handle held while the unit has stopped
\* answering leads to no socket handle and transport Off, unless the unit
\* comes back first.
C32_SilentUnitDetected ==
  (writer # None /\ devMode = "off")
    ~> (devMode # "off" \/ (writer = None /\ media.transport_state = "OFF"))

\* ---------------------------------------------------------------- C33
\* C33: SHUTTING_DOWN set by an acknowledged power-off or by a detection is
\* cleared by a guard timer only when that timer is the one of the latest
\* activation: the timers sleep equally long and fire in the order they were
\* scheduled, so no later timer is still pending when the flag is cleared.
C33_GuardOfItsActivation ==
  [][("SHUTTING_DOWN" \in status /\ "SHUTTING_DOWN" \notin status' /\ guards' < guards)
       => guards' = 0]_vars

\* ---------------------------------------------------------------- C34
ConnectReturned(es) == \E v \in {"TRUE", "FALSE"} : Returned(es, Caller, "connect", v)
InCall(stk, u, f) == stk[u] # <<>> /\ stk[u][1].f = f

\* C34: when a connect() call returns the heartbeat task exists and has not
\* finished, and a heartbeat task finishes only after disconnect() was called
\* and before the next connect() has returned.
C34_HeartbeatAfterConnect ==
  [][ /\ ConnectReturned(emitted') => heartbeat_task' = "alive"
      /\ (heartbeat_task = "alive" /\ heartbeat_task' = "done")
           => (disconnected \/ InCall(stack, Caller, "connect")) ]_vars

\* ---------------------------------------------------------------- C35
\* the heartbeat task has run its first step and has not finished
LoopActive(stk) == stk[HB] # <<>> /\ stk[HB][1].pc # "start"

\* C35: a heartbeat task is created only when none is left (so at most one
\* loop is active), and HEARTBEAT_RUN is set exactly while the loop of the
\* heartbeat task is active, through disconnect() and a later connect().
C35_OneHeartbeat ==
  [][ /\ (\E t \in Coroutines : HasIn(emitted', "spawn", t)) => stack[HB] = <<>>
      /\ "HEARTBEAT_RUN" \in status <=> LoopActive(stack)
      /\ "HEARTBEAT_RUN" \in status' <=> LoopActive(stack') ]_vars

\* the heartbeat created by the connect() that followed disconnect() is in
\* its loop
C35_Witness ==
  /\ opsLeft = 0 /\ ~disconnected /\ heartbeat_task = "alive" /\ hbCancel = "no"
  /\ LoopActive(stack) /\ "HEARTBEAT_RUN" \in status

\* ---------------------------------------------------------------- C36
\* the sockets that are open on the driver's side, and the listen loops
OpenSockets == { s \in Socks : sock[s] = "open" }
ListenLoops == { l \in Socks : stack[l] # <<>> }

\* C36: the socket handle is assigned a new socket only when it is None, and
\* at most one socket is open and at most one listen loop exists.
C36_HandleNeverOverwritten ==
  [][ /\ (writer' # writer /\ writer' # None) => writer = None
      /\ Cardinality(OpenSockets') <= 1
      /\ Cardinality(ListenLoops') <= 1 ]_vars

\* ---------------------------------------------------------------- C37
\* C37: the cleanup that a listen loop runs when it ends closes no socket
\* but the one the loop was reading, and when it completes no socket handle
\* of a newer connection is in place to be forced to Off.
C37_ListenerClosesItsOwn ==
  [][\A l \in Socks :
       /\ (HasIn(emitted', "cleanup", l) /\ writer # None /\ writer' = None)
            => writer = stack[l][1].n
       /\ HasIn(emitted', "cleanup_done", l)
            => "SOCKET_OPEN" \notin TagsIn(emitted', "cleanup_done", l) ]_vars

\* ---------------------------------------------------------------- C38
\* C38: while WAKING_UP is set and there is no socket handle the transport
\* is PoweringOn, and no cleanup completes (transport forced to Off,
\* !7SSTOFF published) while WAKING_UP is set.
C38_WakeKeepsPoweringOn ==
  [][ /\ ("WAKING_UP" \in status' /\ writer' = None)
           => media'.transport_state = "SPLASH"
      /\ \A i \in 1..Len(emitted') :
           emitted'[i].k = "cleanup_done" => "WAKING_UP" \notin emitted'[i].f ]_vars

====
